---- MODULE Spec2Model ----
(***************************************************************************)
(* A model of the symbol-resolution core of the XLSX enrichment scripts:   *)
(*   Symbols.py         yahoo_search, pick_best_match and the              *)
(*                      name-to-ticker row loop                            *)
(*   fill_yf_sector.py  sanitize_symbol, looks_non_yf, map_to_yahoo_symbol,*)
(*                      cached_get_info, cached_exists, strict_exists and  *)
(*                      the fill run over the worklist, write_df_paged     *)
(*   fill_yf_sector_4000.py  strict_exists, resolve_symbol_from_name,      *)
(*                      the symbol auto-fill pass, to_excel_bytes_multi    *)
(*                                                                         *)
(* A Python string is a sequence of one-character strings, so that upper,  *)
(* strip, startswith, endswith and substring search are computed and not   *)
(* assumed.  A score is counted in quarter points (1.0 is 4), so that the  *)
(* halves of the code and the quarters of the written rubric are integers. *)
(***************************************************************************)
EXTENDS Integers, Sequences, FiniteSets, TLC

VARIABLES
    \* ---- Symbols.py: the matching options and one call of pick_best_match
    prefer_exchanges,   \* st.multiselect "Prefer Exchanges" (a set of strings)
    prefer_regions,     \* st.multiselect "Prefer Regions"
    allow_types,        \* st.multiselect "Allow Quote Types"
    quotes,             \* the list yahoo_search returned
    match,              \* what pick_best_match returned (or that it raised)
    \* ---- Symbols.py: the run loop over the uploaded sheet
    rows,               \* df: per row the name cell and the symbol cell
    only_fill_blank,    \* st.checkbox "Only fill rows where Symbol is blank"
    out_symbols,        \* out_df[symbol_col_existing], row by row
    iter,               \* the loop's `i`: enumerate() position in the rows to fill
    results,            \* the list `results`
    \* ---- fill_yf_sector.py: cleaning and mapping one ticker cell
    raw_sym,            \* the raw cell (None or a string)
    sym,                \* sanitize_symbol(raw_sym)
    resanitized,        \* sanitize_symbol(sym)
    exch_in,            \* the exchange hint (None or a string)
    yf_sym,             \* map_to_yahoo_symbol(sym, exch_in)
    \* ---- fill_yf_sector.py: the sidebar settings and the fill run
    skip_non_yf,        \* st.checkbox "Skip non-Yahoo style symbols"
    strict_precheck,    \* st.checkbox "Strict pre-check"
    do_exists_check,    \* st.checkbox "Pre-check ticker exists (legacy fail-open)"
    max_retries,        \* st.number_input "Max retries per ticker"
    checkpoint_every,   \* st.number_input "Checkpoint save every N rows"
    skip_filled,        \* st.checkbox "Skip rows already filled"
    df,                 \* the rows of the table: ticker, exchange, output cells
    work_indices,       \* the worklist: the rows of df to process, in order
    row_k,              \* the loop's `k`: position of the row handled last
    processed,          \* the counter `processed`
    failures,           \* the counter `failures`
    err_rows,           \* the list `err_rows`
    strict_memo,        \* st.cache_data of strict_exists
    exists_memo,        \* st.cache_data of cached_exists
    info_memo,          \* st.cache_data of cached_get_info
    row_events,         \* calls, sleeps and checkpoints of the row handled last
    partial_bytes,      \* st.session_state.partial_bytes
    logs,               \* st.session_state.logs
    \* ---- one call of a lookup function
    net,                \* what the service answers for the symbol
    response,           \* what the search endpoint answers
    called,             \* the function that was called
    args,               \* its arguments
    ret_exists,         \* what strict_exists / cached_exists returned
    ret_info,           \* what cached_get_info returned
    ret_quotes,         \* what yahoo_search returned
    ret_symbol,         \* what resolve_symbol_from_name returned
    probes,             \* the probes the existence validator issued, in order
    \* ---- the paged export: write_df_paged / to_excel_bytes_multi
    page_df,            \* the table to export: its rows, by original row number
    page_size,          \* the page size handed to the function
    writer,             \* the sheets written, in the order of writing
    \* ---- fill_yf_sector_4000.py: the pass that fills Symbol from Name
    df4000,             \* df: per row the symbol, the name, the exchange hint
    rows4000,           \* `rows`: the row numbers the pass iterates
    idx_i,              \* the loop's `idx_i`: position of the row handled last
    filled,             \* the counter `filled`
    unresolved,         \* the counter `unresolved`
    skipped,            \* the counter `skipped`
    resolve_memo,       \* st.cache_data of resolve_symbol_from_name
    strict_memo4000,    \* st.cache_data of strict_exists
    pc                  \* position of the running script

pickVars == <<prefer_exchanges, prefer_regions, allow_types, quotes, match>>
runVars == <<rows, only_fill_blank, out_symbols, iter, results>>
cleanVars == <<raw_sym, sym, resanitized, exch_in, yf_sym>>
fillVars == <<skip_non_yf, strict_precheck, do_exists_check, max_retries, checkpoint_every,
              skip_filled, df, work_indices, row_k, processed, failures, err_rows, strict_memo, exists_memo,
              info_memo, row_events, partial_bytes, logs>>
lookupVars == <<net, response, called, args, ret_exists, ret_info, ret_quotes, ret_symbol,
                probes>>
pageVars == <<page_df, page_size, writer>>
autoVars == <<df4000, rows4000, idx_i, filled, unresolved, skipped, resolve_memo,
              strict_memo4000>>
vars == <<pickVars, runVars, cleanVars, fillVars, lookupVars, pageVars, autoVars, pc>>

(***************************************************************************)
(* Strings                                                                 *)
(***************************************************************************)
LowerLetters == <<"a","b","c","d","e","f","g","h","i","j","k","l","m",
                  "n","o","p","q","r","s","t","u","v","w","x","y","z">>
UpperLetters == <<"A","B","C","D","E","F","G","H","I","J","K","L","M",
                  "N","O","P","Q","R","S","T","U","V","W","X","Y","Z">>
Digits == {"0","1","2","3","4","5","6","7","8","9"}

\* the upper-case form of each lower-case letter
UpperOf == [c \in {LowerLetters[k] : k \in 1..Len(LowerLetters)} |->
               UpperLetters[CHOOSE k \in 1..Len(LowerLetters) : LowerLetters[k] = c]]

UpperCh(c) == IF c \in DOMAIN UpperOf THEN UpperOf[c] ELSE c

\* str.upper()
RECURSIVE Upper(_)
Upper(s) == IF s = <<>> THEN <<>> ELSE <<UpperCh(Head(s))>> \o Upper(Tail(s))

\* s.startswith(p)
StartsWith(s, p) == Len(p) <= Len(s) /\ SubSeq(s, 1, Len(p)) = p

\* s.endswith(p)
EndsWith(s, p) == Len(p) <= Len(s) /\ SubSeq(s, Len(s) - Len(p) + 1, Len(s)) = p

\* p in s (substring search)
Contains(s, p) == \E i \in 1..(Len(s) - Len(p) + 1) : SubSeq(s, i, i + Len(p) - 1) = p

IsSpace(c) == c \in {" ", "\t"}

RECURSIVE LStrip(_)
LStrip(s) == IF s # <<>> /\ IsSpace(Head(s)) THEN LStrip(Tail(s)) ELSE s

RECURSIVE RStrip(_)
RStrip(s) == IF s # <<>> /\ IsSpace(s[Len(s)]) THEN RStrip(SubSeq(s, 1, Len(s) - 1)) ELSE s

\* str.strip()
Strip(s) == RStrip(LStrip(s))

(***************************************************************************)
(* fill_yf_sector.py: sanitize_symbol                                      *)
(***************************************************************************)
\* a Python value that is None or a string
PyNone == [isnone |-> TRUE, s |-> <<>>]
Str(s) == [isnone |-> FALSE, s |-> s]

KNOWN_EX_SUFFIXES ==
    {<<".","T","O">>, <<".","V">>, <<".","C","N">>, <<".","A","X">>, <<".","L">>,
     <<".","S","W">>, <<".","P","A">>, <<".","B","R">>, <<".","B","E">>,
     <<".","D","E">>, <<".","F">>, <<".","H","M">>, <<".","M","U">>, <<".","S","G">>,
     <<".","S","T">>, <<".","H","E">>, <<".","M","I">>, <<".","A","S">>,
     <<".","M","C">>, <<".","W","A">>, <<".","V","I">>, <<".","I","R">>,
     <<".","I","S">>, <<".","H","K">>, <<".","K","S">>, <<".","K","Q">>,
     <<".","T">>, <<".","T","W">>}

VALID_TICKER_CHARS ==
    {UpperLetters[k] : k \in 1..Len(UpperLetters)} \cup Digits \cup {".", "_", "-"}

HasKnownSuffix(s) == \E suf \in KNOWN_EX_SUFFIXES : EndsWith(s, suf)

\* sanitize_symbol without the final filter of the characters
sanitize_symbol_unfiltered(raw) ==
    IF raw.isnone THEN <<>>
    ELSE LET s0 == Upper(Strip(raw.s))
             s1 == IF StartsWith(s0, <<"$">>) THEN Tail(s0) ELSE s0
         IN  IF StartsWith(s1, <<"X">>) /\ ~HasKnownSuffix(s1) /\ Len(s1) > 6
             THEN <<>>
             ELSE s1

sanitize_symbol(raw) ==
    IF raw.isnone THEN <<>>
    ELSE LET s0 == Upper(Strip(raw.s))
             s1 == IF StartsWith(s0, <<"$">>) THEN Tail(s0) ELSE s0
         IN  IF StartsWith(s1, <<"X">>) /\ ~HasKnownSuffix(s1) /\ Len(s1) > 6
             THEN <<>>
             ELSE SelectSeq(s1, LAMBDA ch : ch \in VALID_TICKER_CHARS)

(***************************************************************************)
(* fill_yf_sector.py: map_to_yahoo_symbol                                  *)
(***************************************************************************)
IsUpperLetter(c) == \E k \in 1..Len(UpperLetters) : UpperLetters[k] = c
IsAlnum(c) == IsUpperLetter(c) \/ c \in Digits

\* re.fullmatch(r"[A-Z0-9]{1,3}", t)
IsShortTail(t) == Len(t) \in 1..3 /\ \A k \in 1..Len(t) : IsAlnum(t[k])

\* position of the first "." of s, 0 when there is none
RECURSIVE FirstDot(_, _)
FirstDot(s, k) == IF k > Len(s) THEN 0 ELSE IF s[k] = "." THEN k ELSE FirstDot(s, k + 1)

\* class_share_pat.match(s): ^[A-Z]+\.([A-Z0-9]{1,3})$
class_share_match(s) ==
    LET d == FirstDot(s, 1)
    IN  /\ d > 1
        /\ \A k \in 1..(d - 1) : IsUpperLetter(s[k])
        /\ IsShortTail(SubSeq(s, d + 1, Len(s)))

US_KEYWORDS ==
    {<<"N","Y","S","E">>, <<"N","A","S","D","A","Q">>, <<"N","S","D","Q">>,
     <<"O","T","C">>, <<"A","R","C","A">>, <<"B","A","T","S">>, <<"A","M","E","X">>,
     <<"N","Y","S","E","M","K","T">>, <<"N","M","S">>}

\* map_to_yahoo_symbol without the loop over the known exchange suffixes
map_to_yahoo_symbol_no_suffix_rule(symbol, exchange) ==
    LET s == sanitize_symbol(Str(symbol))
        ex == Upper(Strip(exchange.s))
        hinted == ~exchange.isnone /\ \E k \in US_KEYWORDS : Contains(ex, k)
        blank == exchange.isnone \/ exchange.s = <<>> \/ exchange.s = <<"n","a","n">>
        is_us == hinted \/ (blank /\ class_share_match(s))
        d == FirstDot(s, 1)
    IN  IF s = <<>> THEN s
        ELSE IF is_us /\ d > 0 /\ IsShortTail(SubSeq(s, d + 1, Len(s)))
        THEN SubSeq(s, 1, d - 1) \o <<"-">> \o SubSeq(s, d + 1, Len(s))
        ELSE s

map_to_yahoo_symbol(symbol, exchange) ==
    LET s == sanitize_symbol(Str(symbol))
        ex == Upper(Strip(exchange.s))
        hinted == ~exchange.isnone /\ \E k \in US_KEYWORDS : Contains(ex, k)
        blank == exchange.isnone \/ exchange.s = <<>> \/ exchange.s = <<"n","a","n">>
        is_us == hinted \/ (blank /\ class_share_match(s))
        d == FirstDot(s, 1)
    IN  IF s = <<>> THEN s
        ELSE IF HasKnownSuffix(s) THEN s
        ELSE IF is_us /\ d > 0 /\ IsShortTail(SubSeq(s, d + 1, Len(s)))
        THEN SubSeq(s, 1, d - 1) \o <<"-">> \o SubSeq(s, d + 1, Len(s))
        ELSE s

(***************************************************************************)
(* Symbols.py: pick_best_match                                             *)
(***************************************************************************)
\* An optional argument: None, or a list of strings (order never matters to
\* the code: it only tests membership and any()).
None == [some |-> FALSE, vals |-> {}]
Some(S) == [some |-> TRUE, vals |-> S]

\* `[x.upper() for x in sel] if sel else None`, the argument the run loop
\* builds from a multiselect
UiArg(sel) == IF sel = {} THEN None ELSE Some({Upper(x) : x \in sel})

\* What a call returns: a quote, None, or an exception
NoQuote == [symbol |-> <<>>, shortname |-> <<>>, longname |-> <<>>,
            exchDisp |-> <<>>, exchange |-> <<>>, quoteType |-> <<>>]
Returned(q) == [kind |-> "quote", q |-> q]
ReturnedNone == [kind |-> "none", q |-> NoQuote]
Raised == [kind |-> "raised", q |-> NoQuote]
NotCalled == [kind |-> "idle", q |-> NoQuote]

\* score with a name worth 0.5 instead of 1
score_name_half(q, pe, pr) ==
    LET exch_disp == Upper(q.exchDisp)
        exch == Upper(q.exchange)
        exchange_ok == pe.some /\ pe.vals # {}
                       /\ (exch_disp \in pe.vals \/ exch \in pe.vals)
        region_ok == pr.some /\ pr.vals # {}
                     /\ \E pref \in pr.vals :
                            Contains(exch_disp \o <<" ">> \o exch, Upper(pref))
        s1 == IF exchange_ok THEN 20 ELSE 0
        s2 == IF region_ok THEN 12 ELSE 0
        s3 == IF q.symbol # <<>> /\ ~StartsWith(q.symbol, <<"^">>) THEN 4 ELSE 0
        s4 == IF q.longname # <<>> \/ q.shortname # <<>> THEN 2 ELSE 0
        s5 == IF Upper(q.quoteType) = <<"E","Q","U","I","T","Y">> THEN 4 ELSE 0
        s6 == IF exch_disp # <<>> THEN 2 ELSE 0
    IN  <<s1 + s2 + s3 + s4 + s5 + s6, exchange_ok, region_ok>>

\* score with the exchange and the region weights exchanged
score_weights_swapped(q, pe, pr) ==
    LET exch_disp == Upper(q.exchDisp)
        exch == Upper(q.exchange)
        exchange_ok == pe.some /\ pe.vals # {}
                       /\ (exch_disp \in pe.vals \/ exch \in pe.vals)
        region_ok == pr.some /\ pr.vals # {}
                     /\ \E pref \in pr.vals :
                            Contains(exch_disp \o <<" ">> \o exch, Upper(pref))
        s1 == IF exchange_ok THEN 12 ELSE 0
        s2 == IF region_ok THEN 20 ELSE 0
        s3 == IF q.symbol # <<>> /\ ~StartsWith(q.symbol, <<"^">>) THEN 4 ELSE 0
        s4 == IF q.longname # <<>> \/ q.shortname # <<>> THEN 4 ELSE 0
        s5 == IF Upper(q.quoteType) = <<"E","Q","U","I","T","Y">> THEN 4 ELSE 0
        s6 == IF exch_disp # <<>> THEN 2 ELSE 0
    IN  <<s1 + s2 + s3 + s4 + s5 + s6, exchange_ok, region_ok>>

\* the nested function score(q): (s, exchange_ok, region_ok), s in quarter points
score(q, pe, pr) ==
    LET exch_disp == Upper(q.exchDisp)
        exch == Upper(q.exchange)
        exchange_ok == pe.some /\ pe.vals # {}
                       /\ (exch_disp \in pe.vals \/ exch \in pe.vals)
        region_ok == pr.some /\ pr.vals # {}
                     /\ \E pref \in pr.vals :
                            Contains(exch_disp \o <<" ">> \o exch, Upper(pref))
        s1 == IF exchange_ok THEN 20 ELSE 0
        s2 == IF region_ok THEN 12 ELSE 0
        s3 == IF q.symbol # <<>> /\ ~StartsWith(q.symbol, <<"^">>) THEN 4 ELSE 0
        s4 == IF q.longname # <<>> \/ q.shortname # <<>> THEN 4 ELSE 0
        s5 == IF Upper(q.quoteType) = <<"E","Q","U","I","T","Y">> THEN 4 ELSE 0
        s6 == IF exch_disp # <<>> THEN 2 ELSE 0
    IN  <<s1 + s2 + s3 + s4 + s5 + s6, exchange_ok, region_ok>>

\* Python's order on the key tuples (int, bool, bool); False < True
BoolLess(a, b) == ~a /\ b
KeyLess(a, b) ==
    \/ a[1] < b[1]
    \/ a[1] = b[1] /\ BoolLess(a[2], b[2])
    \/ a[1] = b[1] /\ a[2] = b[2] /\ BoolLess(a[3], b[3])

\* insert x into a list already in descending key order, behind every
\* element whose key is not less than x's: equal keys keep their input order
RECURSIVE InsertDesc(_, _, _, _)
InsertDesc(x, sorted, pe, pr) ==
    IF sorted = <<>> THEN <<x>>
    ELSE IF KeyLess(score(Head(sorted), pe, pr), score(x, pe, pr))
         THEN <<x>> \o sorted
         ELSE <<Head(sorted)>> \o InsertDesc(x, Tail(sorted), pe, pr)

\* sorted(filtered, key=score, reverse=True): a stable sort, descending
RECURSIVE SortedDesc(_, _, _)
SortedDesc(list, pe, pr) ==
    IF list = <<>> THEN <<>>
    ELSE InsertDesc(list[Len(list)],
                    SortedDesc(SubSeq(list, 1, Len(list) - 1), pe, pr), pe, pr)

\* the type filter comparing the quoteType as it is, without upper()
TypeFiltered_case_sensitive(qs, at) ==
    SelectSeq(qs, LAMBDA q : q.quoteType \in at.vals)

\* the list comprehension of the type filter
TypeFiltered(qs, at) ==
    SelectSeq(qs, LAMBDA q : Upper(q.quoteType) \in at.vals)

pick_best_match(qs, pe, pr, at) ==
    IF qs = <<>> THEN ReturnedNone
    ELSE IF ~at.some THEN Raised     \* `x in None`: TypeError
    ELSE LET f == TypeFiltered(qs, at)
             filtered == IF f = <<>> THEN qs ELSE f
             ranked == SortedDesc(filtered, pe, pr)
         IN  IF ranked # <<>> THEN Returned(ranked[1]) ELSE ReturnedNone

(***************************************************************************)
(* fill_yf_sector.py: looks_non_yf                                         *)
(***************************************************************************)
\* looks_non_yf that only tests whether the symbol sanitizes to empty
looks_non_yf_only_empty(raw) ==
    IF raw.isnone \/ raw.s = <<>> THEN TRUE
    ELSE LET r0 == Upper(raw.s)
             r == IF StartsWith(r0, <<"$">>) THEN Tail(r0) ELSE r0
         IN  sanitize_symbol(Str(r)) = <<>>

looks_non_yf(raw) ==
    IF raw.isnone \/ raw.s = <<>> THEN TRUE
    ELSE LET r0 == Upper(raw.s)
             r == IF StartsWith(r0, <<"$">>) THEN Tail(r0) ELSE r0
         IN  IF \E x \in {<<":">>, <<"/">>, <<" ">>} : Contains(r, x) THEN TRUE
             ELSE IF \/ EndsWith(r, <<"F","U","T">>)
                     \/ EndsWith(r, <<".","F","U","T">>)
                     \/ EndsWith(r, <<"_","F","U","T">>) THEN TRUE
             ELSE sanitize_symbol(Str(r)) = <<>>

(***************************************************************************)
(* What the lookup service answers for one symbol.  Every call that        *)
(* yfinance makes on a Ticker is one probe, and each probe may raise,      *)
(* return nothing, or return data:                                         *)
(*   ticker     yf.Ticker(symbol): "ok" or "raise"                         *)
(*   get_info   t.get_info(): a dict, a value that is no dict, an          *)
(*              HTTPError with code 404, another HTTPError, or another     *)
(*              exception                                                  *)
(*   info       the legacy property t.info: a dict, a truthy value that    *)
(*              is no dict, or an exception                                *)
(*   hist       t.history(...): "raise", "none", "empty" or "rows"         *)
(*   fast_info  the property t.fast_info: reading it raises, it is None,   *)
(*              or it is an object whose attributes last_price and market  *)
(*              hold a value, hold None, or raise when read                *)
(* A value of a dict is None (also: the key is absent) or a string.        *)
(***************************************************************************)
Truthy(v) == ~v.isnone /\ v.s # <<>>

\* Python's `a or b`
Or(a, b) == IF Truthy(a) THEN a ELSE b

NoInfo ==
    [sector |-> PyNone, industry |-> PyNone, industryKey |-> PyNone,
     industryDisp |-> PyNone, shortName |-> PyNone, longName |-> PyNone,
     country |-> PyNone, quoteType |-> PyNone, exchange |-> PyNone,
     market |-> PyNone, other |-> FALSE]

\* `not info` of a dict: no key at all (other: a key the code never reads)
IsEmptyDict(d) ==
    /\ ~d.other
    /\ \A f \in {"sector", "industry", "industryKey", "industryDisp", "shortName",
                 "longName", "country", "quoteType", "exchange", "market"} : d[f].isnone

\* the dict cached_get_info returns; {} reads the same through .get()
EmptyRecord ==
    [sector |-> PyNone, industry |-> PyNone, name |-> PyNone,
     country |-> PyNone, asset_type |-> PyNone, exchange |-> PyNone]

\* any(result.get(x) for x in ("sector","industry","name","country","asset_type","exchange"))
AnyField(result) ==
    \E f \in {"sector", "industry", "name", "country", "asset_type", "exchange"} :
        Truthy(result[f])

\* what a call returns: a value, or an exception
ReturnBool(b) == [raised |-> FALSE, v |-> b]
RaiseBool == [raised |-> TRUE, v |-> FALSE]
ReturnRecord(r) == [raised |-> FALSE, v |-> r]
RaiseRecord == [raised |-> TRUE, v |-> EmptyRecord]

\* `fi and (getattr(fi, "last_price", None) is not None or
\*          getattr(fi, "market", None) is not None)`: "yes", "no" or "raise"
fast_info_test(fi) ==
    IF fi.kind = "none" THEN "no"
    ELSE IF fi.last_price = "raise" THEN "raise"
    ELSE IF fi.last_price = "value" THEN "yes"
    ELSE IF fi.market_raises THEN "raise"
    ELSE IF ~fi.market.isnone THEN "yes"
    ELSE "no"

\* info.get("quoteType") or info.get("shortName") or info.get("longName") or info.get("sector")
info_confirms(w) ==
    /\ w.get_info.kind = "dict"
    /\ \E f \in {"quoteType", "shortName", "longName", "sector"} : Truthy(w.get_info.d[f])

\* strict_exists without its outer try/except
strict_exists_unguarded(w) ==
    IF w.ticker = "raise" THEN RaiseBool
    ELSE IF info_confirms(w) THEN ReturnBool(TRUE)
    ELSE IF w.hist = "rows" THEN ReturnBool(TRUE)
    ELSE IF w.fast_info.kind = "raise" THEN RaiseBool
    ELSE ReturnBool(fast_info_test(w.fast_info) = "yes")

\* strict_exists(yf_symbol) of fill_yf_sector.py, for the answers w the symbol gets
strict_exists(w) ==
    LET body == IF w.ticker = "raise" THEN RaiseBool
                ELSE IF info_confirms(w) THEN ReturnBool(TRUE)
                ELSE IF w.hist = "rows" THEN ReturnBool(TRUE)
                ELSE IF w.fast_info.kind = "raise" THEN RaiseBool
                ELSE ReturnBool(fast_info_test(w.fast_info) = "yes")
    IN  IF body.raised THEN ReturnBool(FALSE) ELSE body

\* cached_exists that answers False when no probe confirms
cached_exists_fail_closed(w) ==
    LET body == IF w.ticker = "raise" THEN RaiseBool
                ELSE IF info_confirms(w) THEN ReturnBool(TRUE)
                ELSE IF w.hist = "rows" THEN ReturnBool(TRUE)
                ELSE IF w.fast_info.kind = "raise" THEN RaiseBool
                ELSE ReturnBool(fast_info_test(w.fast_info) = "yes")
    IN  IF body.raised THEN ReturnBool(FALSE) ELSE body

\* cached_exists(yf_symbol)
cached_exists(w) ==
    LET body == IF w.ticker = "raise" THEN RaiseBool
                ELSE IF info_confirms(w) THEN ReturnBool(TRUE)
                ELSE IF w.hist = "rows" THEN ReturnBool(TRUE)
                ELSE IF w.fast_info.kind = "raise" THEN RaiseBool
                ELSE IF fast_info_test(w.fast_info) = "yes" THEN ReturnBool(TRUE)
                ELSE ReturnBool(TRUE)
    IN  IF body.raised THEN ReturnBool(TRUE) ELSE body

\* fill_yf_sector_4000.py: strict_exists(symbol).  Here fast_info confirms
\* only when it is a dict with one of the keys lastPrice, last_price,
\* currency, marketCap, market_cap (fi.keyed), and yfinance is asked nothing
\* for a blank symbol.
strict_exists_4000(symbol, w) ==
    LET fi == w.fast_info
        body == IF symbol.isnone \/ Strip(symbol.s) = <<>> THEN ReturnBool(FALSE)
                ELSE IF w.ticker = "raise" THEN RaiseBool
                ELSE IF fi.kind = "obj" /\ fi.isdict /\ fi.keyed THEN ReturnBool(TRUE)
                ELSE IF w.hist = "rows" THEN ReturnBool(TRUE)
                ELSE ReturnBool(FALSE)
    IN  IF body.raised THEN ReturnBool(FALSE) ELSE body

\* the probes strict_exists issues, all three whatever they answer
strict_exists_probes_all(w) ==
    IF w.ticker = "raise" THEN <<>> ELSE <<"get_info", "history", "fast_info">>

\* the probes strict_exists of fill_yf_sector.py issues, in order: t.get_info(),
\* t.history(...), t.fast_info; a `return True` ends the call
strict_exists_probes(w) ==
    IF w.ticker = "raise" THEN <<>>
    ELSE <<"get_info">>
         \o (IF info_confirms(w) THEN <<>>
             ELSE <<"history">>
                  \o (IF w.hist = "rows" THEN <<>> ELSE <<"fast_info">>))

\* the probes cached_exists issues, in order
cached_exists_probes(w) ==
    IF w.ticker = "raise" THEN <<>>
    ELSE <<"get_info">>
         \o (IF info_confirms(w) THEN <<>>
             ELSE <<"history">>
                  \o (IF w.hist = "rows" THEN <<>> ELSE <<"fast_info">>))

\* the probes strict_exists of fill_yf_sector_4000.py issues, in order:
\* t.fast_info, then t.history(...)
strict_exists_4000_probes(symbol, w) ==
    IF symbol.isnone \/ Strip(symbol.s) = <<>> THEN <<>>
    ELSE IF w.ticker = "raise" THEN <<>>
    ELSE <<"fast_info">>
         \o (IF w.fast_info.kind = "obj" /\ w.fast_info.isdict /\ w.fast_info.keyed
             THEN <<>> ELSE <<"history">>)

\* norm = lambda x: x if (x is not None and str(x).strip()) else None
norm(x) == IF ~x.isnone /\ Strip(x.s) # <<>> THEN x ELSE PyNone

\* cached_get_info(yf_symbol), for the answers w the symbol gets
cached_get_info(w) ==
    LET \* 1) get_info, an HTTPError other than 404 is raised again
        info1 == IF w.get_info.kind = "dict" THEN w.get_info.d ELSE NoInfo
        \* 2) the legacy property when info is still empty
        info == IF IsEmptyDict(info1) /\ w.info.kind = "dict" THEN w.info.d ELSE info1
        sector == info.sector
        industry == Or(Or(info.industry, info.industryKey), info.industryDisp)
        name == Or(info.shortName, info.longName)
        country == info.country
        asset_tp == info.quoteType
        exch0 == Or(info.exchange, info.market)
        fi == w.fast_info
        \* 3) fast_info supplement; an exception leaves exch_yf as it is
        exch1 == IF fi.kind = "obj" /\ ~Truthy(exch0) /\ ~fi.market_raises
                 THEN fi.market ELSE exch0
        \* 4) history ping when nothing was found
        nothing == ~(\E x \in {sector, industry, name, country, asset_tp, exch1} : Truthy(x))
        exch_yf == IF nothing /\ w.hist = "rows" /\ fi.kind = "obj" /\ ~Truthy(exch1)
                      /\ ~fi.market_raises
                   THEN fi.market ELSE exch1
        body == IF w.ticker = "raise" \/ w.get_info.kind = "httperr"
                   \/ w.fast_info.kind = "raise"
                THEN RaiseRecord
                ELSE ReturnRecord([sector |-> norm(sector), industry |-> norm(industry),
                                   name |-> norm(name), country |-> norm(country),
                                   asset_type |-> norm(asset_tp), exchange |-> norm(exch_yf)])
    IN  IF body.raised THEN ReturnRecord(EmptyRecord) ELSE body

(***************************************************************************)
(* The search endpoint.  An answer to one search is                        *)
(*   kind    "network_error" (the request raises), "http_error" (a status  *)
(*           that raise_for_status rejects), "not_json" (the body does not *)
(*           parse), "not_object" (the body is JSON but no object),        *)
(*           "no_quotes" (an object without the key "quotes"),             *)
(*           "null_quotes" ("quotes" is null) or "quotes"                  *)
(*   quotes  the list under "quotes"                                       *)
(***************************************************************************)
ReturnList(l) == [raised |-> FALSE, v |-> l]
RaiseList == [raised |-> TRUE, v |-> <<>>]
ReturnSymbol(s) == [raised |-> FALSE, v |-> s]
RaiseSymbol == [raised |-> TRUE, v |-> PyNone]

\* yahoo_search without its try/except
yahoo_search_unguarded(resp) ==
    IF resp.kind \in {"network_error", "http_error", "not_json", "not_object"}
    THEN RaiseList
    ELSE IF resp.kind \in {"no_quotes", "null_quotes"} THEN ReturnList(<<>>)
    ELSE ReturnList(resp.quotes)

\* Symbols.py: yahoo_search(query), for the answer resp the request gets
yahoo_search(resp) ==
    LET body == IF resp.kind \in {"network_error", "http_error", "not_json", "not_object"}
                THEN RaiseList
                ELSE IF resp.kind \in {"no_quotes", "null_quotes"} THEN ReturnList(<<>>)
                ELSE ReturnList(resp.quotes)
    IN  IF body.raised THEN ReturnList(<<>>) ELSE body

\* fill_yf_sector_4000.py: _score_quote(q, country_hint, exchange_hint)
_score_quote(q, country_hint, exchange_hint) ==
    (IF Upper(q.quoteType) \in {<<"E","Q","U","I","T","Y">>, <<"E","T","F">>,
                                <<"M","U","T","U","A","L","F","U","N","D">>}
     THEN 3 ELSE 0)
    + (IF Truthy(country_hint)
          /\ Upper(Strip(q.country)) = Upper(Strip(country_hint.s)) THEN 2 ELSE 0)
    + (IF Truthy(exchange_hint)
          /\ StartsWith(Upper(Strip(q.exchDisp)), Upper(Strip(exchange_hint.s)))
       THEN 2 ELSE 0)
    + q.score

\* max(filt, key=...): the first element with the greatest key
FirstMax(filt, country_hint, exchange_hint) ==
    LET key(n) == _score_quote(filt[n], country_hint, exchange_hint)
        best == CHOOSE n \in 1..Len(filt) :
                    /\ \A m \in 1..Len(filt) : key(m) <= key(n)
                    /\ \A m \in 1..(n - 1) : key(m) < key(n)
    IN  filt[best]

\* fill_yf_sector_4000.py: _best_symbol_from_quotes; None is PyNone
_best_symbol_from_quotes(qs, country_hint, exchange_hint) ==
    IF qs = <<>> THEN PyNone
    ELSE LET keep(q) == q.symbol # <<>> /\ ~EndsWith(q.symbol, <<"=","F">>)
             kept == SelectSeq(qs, keep)
             filt == IF kept = <<>> THEN qs ELSE kept
         IN  Str(FirstMax(filt, country_hint, exchange_hint).symbol)

\* a resolve_symbol_from_name that returns its candidate without asking
\* strict_exists
resolve_symbol_from_name_unvalidated(has_yq, name, country_hint, exchange_hint, resp, w) ==
    IF ~has_yq \/ name.isnone \/ Strip(name.s) = <<>> THEN ReturnSymbol(PyNone)
    ELSE IF resp.kind # "quotes" THEN ReturnSymbol(PyNone)
    ELSE ReturnSymbol(_best_symbol_from_quotes(resp.quotes, country_hint, exchange_hint))

\* fill_yf_sector_4000.py: resolve_symbol_from_name(name, country_hint,
\* exchange_hint) when yahooquery is installed (has_yq), for the answer resp
\* of the search and the answers w the candidate gets
resolve_symbol_from_name(has_yq, name, country_hint, exchange_hint, resp, w) ==
    IF ~has_yq \/ name.isnone \/ Strip(name.s) = <<>> THEN ReturnSymbol(PyNone)
    ELSE LET qs == IF resp.kind = "quotes" THEN resp.quotes ELSE <<>>
             cand == _best_symbol_from_quotes(qs, country_hint, exchange_hint)
             body == IF resp.kind \in {"network_error", "http_error", "not_json"}
                     THEN RaiseSymbol
                     ELSE IF ~Truthy(cand) THEN ReturnSymbol(PyNone)
                     ELSE IF strict_exists_4000(cand, w).v THEN ReturnSymbol(cand)
                     ELSE ReturnSymbol(PyNone)
         IN  IF body.raised THEN ReturnSymbol(PyNone) ELSE body

(***************************************************************************)
(* One call of a lookup function: the answers of the service are drawn     *)
(* from bounded sets, the actions apply the functions to them              *)
(***************************************************************************)
TEXT == <<"T","e","c","h">>

InfoDicts ==
    {NoInfo,
     [NoInfo EXCEPT !.other = TRUE],
     [NoInfo EXCEPT !.sector = Str(TEXT)],
     [NoInfo EXCEPT !.shortName = Str(<<" ">>)],
     [NoInfo EXCEPT !.quoteType = Str(<<"E","T","F">>)],
     [NoInfo EXCEPT !.industryKey = Str(TEXT), !.market = Str(<<"u","s">>)],
     [NoInfo EXCEPT !.sector = Str(TEXT), !.industry = Str(TEXT), !.longName = Str(TEXT),
                    !.country = Str(TEXT), !.quoteType = Str(<<"E","T","F">>),
                    !.exchange = Str(<<"N","M","S">>)]}

GetInfoAnswers ==
    {[kind |-> k, d |-> NoInfo] : k \in {"nondict", "http404", "httperr", "raise"}}
    \cup {[kind |-> "dict", d |-> d] : d \in InfoDicts}

LegacyInfoAnswers ==
    {[kind |-> k, d |-> NoInfo] : k \in {"nondict", "raise"}}
    \cup {[kind |-> "dict", d |-> d] :
             d \in {NoInfo, [NoInfo EXCEPT !.longName = Str(TEXT)]}}

HistAnswers == {"raise", "none", "empty", "rows"}

NoFastInfo ==
    [kind |-> "none", last_price |-> "none", market_raises |-> FALSE, market |-> PyNone,
     isdict |-> FALSE, keyed |-> FALSE]

FastInfoAnswers ==
    {NoFastInfo, [NoFastInfo EXCEPT !.kind = "raise"]}
    \cup {[NoFastInfo EXCEPT !.kind = "obj", !.last_price = lp, !.market_raises = mr,
                             !.market = mk] :
             lp \in {"none", "value", "raise"}, mr \in BOOLEAN,
             mk \in {PyNone, Str(<<"u","s">>)}}
    \cup {[NoFastInfo EXCEPT !.kind = "obj", !.isdict = TRUE, !.keyed = kd] : kd \in BOOLEAN}

Worlds ==
    [ticker : {"ok", "raise"}, get_info : GetInfoAnswers, info : LegacyInfoAnswers,
     hist : HistAnswers, fast_info : FastInfoAnswers]

\* a symbol the service does not know, and one it knows from its history
DeadWorld ==
    [ticker |-> "ok", get_info |-> [kind |-> "http404", d |-> NoInfo],
     info |-> [kind |-> "raise", d |-> NoInfo], hist |-> "empty", fast_info |-> NoFastInfo]
LiveWorld == [DeadWorld EXCEPT !.hist = "rows"]

YQQuote(s, t, e, n) ==
    [symbol |-> s, quoteType |-> t, country |-> <<>>, exchDisp |-> e, score |-> n]

QuoteLists4000 ==
    LET ab == YQQuote(<<"A","B">>, <<"E","Q","U","I","T","Y">>, <<"N","Y","S","E">>, 1)
        fut == YQQuote(<<"C","=","F">>, <<"F","U","T","U","R","E">>, <<"C","M","E">>, 5)
        anon == YQQuote(<<>>, <<"E","T","F">>, <<"L","S","E">>, 9)
    IN  {<<>>, <<ab>>, <<fut>>, <<fut, ab>>, <<anon>>, <<anon, ab>>}

NoResponse == [kind |-> "network_error", quotes |-> <<>>]

Responses ==
    {[kind |-> k, quotes |-> <<>>] :
        k \in {"network_error", "http_error", "not_json", "not_object",
               "no_quotes", "null_quotes"}}
    \cup {[kind |-> "quotes", quotes |-> l] : l \in QuoteLists4000}

NoArgs == [has_yq |-> TRUE, symbol |-> PyNone, name |-> PyNone,
           country_hint |-> PyNone, exchange_hint |-> PyNone]

LookupIdle ==
    /\ net = DeadWorld
    /\ response = NoResponse
    /\ called = "nothing"
    /\ args = NoArgs
    /\ ret_exists = ReturnBool(FALSE)
    /\ ret_info = ReturnRecord(EmptyRecord)
    /\ ret_quotes = ReturnList(<<>>)
    /\ ret_symbol = ReturnSymbol(PyNone)
    /\ probes = <<>>


(***************************************************************************)
(* fill_yf_sector.py: the fill run.  st.cache_data keeps, per function and *)
(* per symbol, the value a call returned; a call for a symbol that is not  *)
(* in the cache asks the service, whose answer is any of FillWorlds.  Time *)
(* is counted in tenths of a second.                                       *)
(***************************************************************************)
MIN_CHECKPOINT_EVERY == 10     \* st.number_input(..., min_value=10)
BACKOFF_TENTHS == 4            \* time.sleep(0.4 * (attempt + 1))

NoCells ==
    [sector |-> PyNone, industry |-> PyNone, name |-> PyNone,
     country |-> PyNone, asset_type |-> PyNone, exchange |-> PyNone]

OutFields == {"sector", "industry", "name", "country", "asset_type", "exchange"}

Event(op, n) == [op |-> op, n |-> n]

\* the entries of a cache are pairs <<symbol, value>>
Cached(memo, s) == \E p \in memo : p[1] = s
CachedValue(memo, s) == (CHOOSE p \in memo : p[1] = s)[2]

\* the row of err_rows for a row that was given up before the fetch
GivenUp(raw, mapped, status, error) ==
    [Symbol |-> raw, Mapped |-> mapped, Status |-> status,
     Sector |-> PyNone, Industry |-> PyNone, Name |-> PyNone, Country |-> PyNone,
     Asset_Type |-> PyNone, Exchange |-> PyNone, Error |-> error]

\* isinstance(x, str) and x.strip()
IsText(x) == ~x.isnone /\ Strip(x.s) # <<>>

\* the retry loop cut after its first attempt
fetch_loop_one_attempt(attempt, retries, r, miss) ==
    <<Event("cached_get_info", attempt + 1)>>
    \o (IF miss /\ attempt = 0 THEN <<Event("yfinance", 0)>> ELSE <<>>)
    \o (IF ~r.raised /\ AnyField(r.v) THEN <<>>
        ELSE <<Event("sleep", BACKOFF_TENTHS * (attempt + 1))>>)

\* the events of the retry loop from `attempt` on, when every call of
\* cached_get_info returns r: the loop stops without a sleep at an attempt
\* with a populated field, and sleeps 0.4 * (attempt + 1) after any other
RECURSIVE fetch_loop(_, _, _, _)
fetch_loop(attempt, retries, r, miss) ==
    IF attempt > retries THEN <<>>
    ELSE LET call == <<Event("cached_get_info", attempt + 1)>>
                     \o (IF miss /\ attempt = 0 THEN <<Event("yfinance", 0)>> ELSE <<>>)
         IN  IF ~r.raised /\ AnyField(r.v) THEN call
             ELSE call \o <<Event("sleep", BACKOFF_TENTHS * (attempt + 1))>>
                  \o fetch_loop(attempt + 1, retries, r, miss)

\* what the loop's calls may return for a symbol: the cached value, or the
\* function applied to an answer of the service
FullWorld ==
    [LiveWorld EXCEPT !.get_info =
        [kind |-> "dict",
         d |-> [NoInfo EXCEPT !.sector = Str(<<"T","e","c","h">>),
                              !.longName = Str(<<" ","I","n","c"," ">>)]]]
FillWorlds == {DeadWorld, LiveWorld, FullWorld}
StrictAnswers(memo, s) ==
    IF Cached(memo, s) THEN {CachedValue(memo, s)}
    ELSE {strict_exists(w).v : w \in FillWorlds}
ExistsAnswers(memo, s) ==
    IF Cached(memo, s) THEN {CachedValue(memo, s)}
    ELSE {cached_exists(w).v : w \in FillWorlds}
InfoAnswers(memo, s) ==
    IF Cached(memo, s) THEN {ReturnRecord(CachedValue(memo, s))}
    ELSE {cached_get_info(w) : w \in FillWorlds}

\* save_checkpoint(df): the snapshot kept in st.session_state.partial_bytes
NoSnapshot == [some |-> FALSE, table |-> <<>>]
Snapshot(table) == [some |-> TRUE, table |-> table]

(***************************************************************************)
(* The fill run over a bounded worklist                                    *)
(***************************************************************************)
MaxWork == 10      \* most rows in the worklist
MaxRetries == 1    \* greatest "Max retries per ticker"

Cell(symbol, exchange) == [symbol |-> Str(symbol), exchange |-> Str(exchange), out |-> NoCells]

\* a plain ticker; str() of a missing exchange cell is "nan"
PlainCell == Cell(<<"A","A","P","L">>, <<"n","a","n">>)

WorkCells ==
    {PlainCell,
     Cell(<<"A","A","P","L",":","U","S"," ","F","U","T">>, <<"n","a","n">>),
     Cell(<<"B","R","K",".","B">>, <<" ","N","Y","S","E">>),
     Cell(<<"!","!","!">>, <<"n","a","n">>),
     Cell(<<"$","$","X","A","B","C","D","E","F">>, <<"n","a","n">>),
     Cell(<<"!","X","A","B","C","D","E","F">>, <<"n","a","n">>)}

\* rows that the worklist leaves out or that hold cells of an earlier run: a
\* blank ticker, a row with sector and industry filled, a row with the
\* sector alone
BlankCell == Cell(<<" ">>, <<"n","a","n">>)
FilledCell == [PlainCell EXCEPT !.out.sector = Str(<<"O","l","d">>), !.out.industry = Str(<<"O","l","d">>)]
HalfFilledCell == [PlainCell EXCEPT !.out.sector = Str(<<"O","l","d">>)]

\* the tables: plain tickers, and one other row as the first or the last row
Sheets ==
    UNION {{[n \in 1..len |-> IF n = at THEN c ELSE PlainCell] :
               at \in {1, len}, c \in WorkCells \cup {BlankCell, FilledCell, HalfFilledCell}} :
           len \in 1..MaxWork}

\* the worklist built from the table: the rows with a non-blank ticker
\* that, when skip_filled is ticked, lack a sector or an industry
InWorklist(row, skip) ==
    /\ Strip(row.symbol.s) # <<>>
    /\ ~(skip /\ IsText(row.out.sector) /\ IsText(row.out.industry))
RECURSIVE WorkIndices(_, _, _)
WorkIndices(table, skip, from) ==
    IF from > Len(table) THEN <<>>
    ELSE (IF InWorklist(table[from], skip) THEN <<from>> ELSE <<>>)
         \o WorkIndices(table, skip, from + 1)

FillIdle ==
    /\ skip_non_yf = TRUE
    /\ strict_precheck = TRUE
    /\ do_exists_check = FALSE
    /\ max_retries = 1
    /\ checkpoint_every = MIN_CHECKPOINT_EVERY
    /\ skip_filled = TRUE
    /\ df = <<>>
    /\ work_indices = <<>>
    /\ row_k = 0
    /\ processed = 0
    /\ failures = 0
    /\ err_rows = <<>>
    /\ strict_memo = {}
    /\ exists_memo = {}
    /\ info_memo = {}
    /\ row_events = <<>>
    /\ partial_bytes = NoSnapshot
    /\ logs = <<>>


(***************************************************************************)
(* The paged export.  A table is the sequence of its rows, a row being its *)
(* original row number; _df.iloc[start:end] is the rows at the 0-based     *)
(* positions start .. end-1.  A sheet name is its number, 0 for the base   *)
(* name without a number.                                                  *)
(***************************************************************************)
MIN_SHEET_ROWS == 100              \* "Max rows per sheet": min_value=100
MAX_SHEET_ROWS_HARD_CAP == 500
MIN_SHEET_ROWS_4000 == 500         \* fill_yf_sector_4000.py: min_value=500

iloc(_df, start, end) == SubSeq(_df, start + 1, end)

\* write_df_paged with every sheet cut to page_size - 1 rows beyond its start
write_df_paged_gaps(_df, size) ==
    LET n == Len(_df)
        pages == (n + size - 1) \div size
    IN  [p1 \in 1..pages |->
            LET start == (p1 - 1) * size
                end == IF start + size - 1 <= n THEN start + size - 1 ELSE n
            IN  [sheet |-> p1, rows |-> iloc(_df, start, end)]]

\* fill_yf_sector.py: write_df_paged(_df, writer, page_size)
write_df_paged(_df, size) ==
    LET n == Len(_df)
        pages == (n + size - 1) \div size
    IN  IF n = 0 THEN <<[sheet |-> 1, rows |-> _df]>>
        ELSE [p1 \in 1..pages |->
                 LET start == (p1 - 1) * size
                     end == IF start + size <= n THEN start + size ELSE n
                 IN  [sheet |-> p1, rows |-> iloc(_df, start, end)]]

\* fill_yf_sector_4000.py: to_excel_bytes_multi(df, sheet_base,
\* max_rows_per_sheet); math.ceil(len(df) / max_rows_per_sheet) is exact for
\* these sizes
to_excel_bytes_multi(_df, max_rows_per_sheet) ==
    LET n == Len(_df)
        n_sheets == (n + max_rows_per_sheet - 1) \div max_rows_per_sheet
    IN  IF n <= max_rows_per_sheet THEN <<[sheet |-> 0, rows |-> _df]>>
        ELSE [i1 \in 1..n_sheets |->
                 LET start == (i1 - 1) * max_rows_per_sheet
                     end == IF i1 * max_rows_per_sheet <= n
                            THEN i1 * max_rows_per_sheet ELSE n
                 IN  [sheet |-> i1, rows |-> iloc(_df, start, end)]]

MaxPageRows == 1100     \* most rows in an exported table

\* the page sizes tried: the least and the greatest of fill_yf_sector.py
\* (the greatest is the least of fill_yf_sector_4000.py), and one above
PageSizes == {MIN_SHEET_ROWS, MAX_SHEET_ROWS_HARD_CAP, MIN_SHEET_ROWS_4000 + 1}

PageIdle ==
    /\ page_df = <<>>
    /\ page_size = MAX_SHEET_ROWS_HARD_CAP
    /\ writer = <<>>


(***************************************************************************)
(* fill_yf_sector_4000.py: the pass that fills a blank Symbol from Name.   *)
(* The cells of Symbol and Name are stripped strings (_coerce_str_series). *)
(***************************************************************************)
MaxAutoRows == 3    \* most rows in the sheet of the pass

\* the sheets: a symbol that is blank or set, a name that is blank or one
\* of two, an exchange hint
AutoSheets ==
    LET cells == [symbol : {<<>>, <<"X","Y">>},
                  name : {<<>>, <<"A","c","m","e">>, <<"B","o","l","t">>},
                  exchange : {Str(<<"n","y","s","e">>)}]
    IN  UNION {[1..len -> cells] : len \in 1..MaxAutoRows}

\* filtered_df.index for "Filter Name contains" = "bo":
\* df[name_col].str.contains("bo", case=False)
RECURSIVE FilteredRows(_, _)
FilteredRows(table, from) ==
    IF from > Len(table) THEN <<>>
    ELSE (IF Contains(Upper(table[from].name), <<"B","O">>) THEN <<from>> ELSE <<>>)
         \o FilteredRows(table, from + 1)

\* what the search answers for a name
AutoResponses ==
    {NoResponse, [kind |-> "no_quotes", quotes |-> <<>>]}
    \cup {[kind |-> "quotes", quotes |-> l] :
             l \in {q \in QuoteLists4000 : Len(q) = 1 \/ (Len(q) > 1 /\ q[1].symbol = <<>>)}}

AutoIdle ==
    /\ df4000 = <<>>
    /\ rows4000 = <<>>
    /\ idx_i = 0
    /\ filled = 0
    /\ unresolved = 0
    /\ skipped = 0
    /\ resolve_memo = {}
    /\ strict_memo4000 = {}

(***************************************************************************)
(* One call of pick_best_match, as the run loop makes it (lines 209-213):  *)
(* the inputs are drawn from bounded sets, the action applies the function *)
(***************************************************************************)
MaxQuotes == 2     \* longest candidate list drawn

SymbolValues == {<<"A">>, <<"^","A">>}
NameValues == {<<>>, <<"N">>}
QuoteTypeValues == {<<"e","q","u","i","t","y">>, <<"I","N","D","E","X">>}
\* (exchDisp, exchange) of a quote
ExchangePairs == {<< <<>>, <<>> >>,
                  << <<"L","S","E">>, <<>> >>,
                  << <<"U","S">>, <<>> >>,
                  << <<"L","S","E">>, <<"L","S","E">> >>,
                  << <<"U","S">>, <<"L","S","E">> >>}

\* a key the response does not carry reads as "" everywhere the code reads it
QuoteUniverse ==
    {[symbol |-> sy, shortname |-> n, longname |-> <<>>,
      exchDisp |-> x[1], exchange |-> x[2], quoteType |-> t] :
        sy \in SymbolValues, n \in NameValues, x \in ExchangePairs,
        t \in QuoteTypeValues}

QuoteLists == UNION {[1..n -> QuoteUniverse] : n \in 0..MaxQuotes}

\* selections of the three multiselects
ExchangeSelections == {{}, {<<"L","S","E">>}}
RegionSelections == {{}, {<<"U","S">>}}
TypeSelections == {{},
                   {<<"E","Q","U","I","T","Y">>, <<"E","T","F">>, <<"F","U","N","D">>}}

PickIdle ==
    /\ prefer_exchanges = {}
    /\ prefer_regions = {}
    /\ allow_types = {}
    /\ quotes = <<>>
    /\ match = NotCalled

CleanIdle ==
    /\ raw_sym = PyNone
    /\ sym = <<>>
    /\ resanitized = <<>>
    /\ exch_in = PyNone
    /\ yf_sym = <<>>

RunIdle ==
    /\ rows = <<>>
    /\ only_fill_blank = TRUE
    /\ out_symbols = <<>>
    /\ iter = 1
    /\ results = <<>>

PickInit ==
    /\ RunIdle /\ CleanIdle /\ FillIdle /\ LookupIdle /\ PageIdle /\ AutoIdle
    /\ prefer_exchanges \in ExchangeSelections
    /\ prefer_regions \in RegionSelections
    /\ allow_types \in TypeSelections
    /\ quotes \in QuoteLists
    /\ match = NotCalled
    /\ pc = "call"

\* match = pick_best_match(quotes, prefer_exchanges=..., prefer_regions=..., allow_types=...)
CallPick ==
    /\ pc = "call"
    /\ match' = pick_best_match(quotes, UiArg(prefer_exchanges),
                                UiArg(prefer_regions), UiArg(allow_types))
    /\ pc' = "called"
    /\ UNCHANGED <<fillVars, lookupVars, pageVars, autoVars, prefer_exchanges, prefer_regions, allow_types, quotes, runVars, cleanVars>>

PickNext == CallPick

SpecPick == PickInit /\ [][PickNext]_vars

(***************************************************************************)
(* Claims about pick_best_match (SpecPick)                                 *)
(***************************************************************************)
PE == UiArg(prefer_exchanges)
PR == UiArg(prefer_regions)
AT == UiArg(allow_types)
EQUITY == <<"E","Q","U","I","T","Y">>

\* the candidate's quoteType, compared case-insensitively, is an allowed one
Allowed(q) == Upper(q.quoteType) \in AT.vals
\* the list that is scored: the allowed candidates, or all when there is none
Scored == IF \E i \in 1..Len(quotes) : Allowed(quotes[i])
          THEN SelectSeq(quotes, Allowed) ELSE quotes
InList(q, list) == \E i \in 1..Len(list) : list[i] = q

ExchangeMatches(q) == Upper(q.exchDisp) \in PE.vals \/ Upper(q.exchange) \in PE.vals
RegionMatches(q) ==
    \E r \in PR.vals : Contains(Upper(q.exchDisp) \o <<" ">> \o Upper(q.exchange), r)
SymbolLooksNormal(q) == q.symbol # <<>> /\ Head(q.symbol) # "^"
HasName(q) == q.shortname # <<>> \/ q.longname # <<>>

\* the rubric as written in the specification, in quarter points
WrittenPoints(q) ==
      (IF ExchangeMatches(q) THEN 20 ELSE 0) + (IF RegionMatches(q) THEN 12 ELSE 0)
    + (IF SymbolLooksNormal(q) THEN 4 ELSE 0) + (IF Upper(q.quoteType) = EQUITY THEN 4 ELSE 0)
    + (IF HasName(q) THEN 2 ELSE 0) + (IF q.exchDisp # <<>> THEN 1 ELSE 0)

\* the rubric with a name worth 1.0 and an exchange display worth 0.5
AmendedPoints(q) ==
      (IF ExchangeMatches(q) THEN 20 ELSE 0) + (IF RegionMatches(q) THEN 12 ELSE 0)
    + (IF SymbolLooksNormal(q) THEN 4 ELSE 0) + (IF Upper(q.quoteType) = EQUITY THEN 4 ELSE 0)
    + (IF HasName(q) THEN 4 ELSE 0) + (IF q.exchDisp # <<>> THEN 2 ELSE 0)

Points(q) == score(q, PE, PR)[1]
TopPoints == CHOOSE m \in {Points(Scored[i]) : i \in 1..Len(Scored)} :
                 \A i \in 1..Len(Scored) : Points(Scored[i]) <= m
FirstTop == Scored[CHOOSE i \in 1..Len(Scored) :
                      /\ Points(Scored[i]) = TopPoints
                      /\ \A j \in 1..(i - 1) : Points(Scored[j]) # TopPoints]

\* C1: among the candidates of the scored list that have the highest numeric
\* score, the call returns the one that comes first in the input list; nothing
\* but the position decides between candidates of equal score.
C1_TieBreakPositional ==
    (pc = "called" /\ match.kind = "quote") => match.q = FirstTop

\* C2: for a non-empty candidate list and any policy the options panel can
\* pass, the call returns one of the candidates: never None, never an error.
C2_NeverEmptyOnNonEmptyInput ==
    (pc = "called" /\ quotes # <<>>) =>
        (match.kind = "quote" /\ InList(match.q, quotes))

\* C3 (as written): every candidate's score is the sum of the weights 5, 3, 1,
\* 1 (EQUITY), 0.5 (a name) and 0.25 (an exchange display), and the candidate
\* returned has the highest such score of the scored list.
C3_WrittenRubric ==
    pc = "called" =>
        /\ \A i \in 1..Len(quotes) : Points(quotes[i]) = WrittenPoints(quotes[i])
        /\ match.kind = "quote" =>
               \A i \in 1..Len(Scored) : WrittenPoints(Scored[i]) <= WrittenPoints(match.q)

\* C3 (amended): every candidate's score is the sum of the weights 5, 3, 1,
\* 1 (EQUITY), 1 (a name) and 0.5 (an exchange display), and the candidate
\* returned is one of the scored list with the highest such score.
C3_AmendedRubric ==
    pc = "called" =>
        /\ \A i \in 1..Len(quotes) : Points(quotes[i]) = AmendedPoints(quotes[i])
        /\ match.kind = "quote" =>
               /\ InList(match.q, Scored)
               /\ \A i \in 1..Len(Scored) : AmendedPoints(Scored[i]) <= AmendedPoints(match.q)

\* a returned candidate with a name and an exchange display that beat a
\* candidate the written weights would rank above it
C3_Witness ==
    /\ pc = "called" /\ match.kind = "quote"
    /\ HasName(match.q) /\ match.q.exchDisp # <<>>
    /\ \E i \in 1..Len(Scored) :
          /\ AmendedPoints(Scored[i]) < AmendedPoints(match.q)
          /\ WrittenPoints(Scored[i]) > WrittenPoints(match.q)

\* two candidates alike in every field but the exchange display, the first's
\* display a preferred exchange and the second's not (the claims take them
\* to be the two candidates of the list)
PreferredPair(a, b) ==
    /\ a.exchDisp # b.exchDisp
    /\ [a EXCEPT !.exchDisp = <<>>] = [b EXCEPT !.exchDisp = <<>>]
    /\ Upper(a.exchDisp) \in PE.vals
    /\ Upper(b.exchDisp) \notin PE.vals

C5_TypeFilterExcludes ==
    (pc = "called" /\ \E i \in 1..Len(quotes) : Allowed(quotes[i])) =>
        (match.kind = "quote" /\ Allowed(match.q))

\* an index candidate '^A' on a preferred exchange comes first and scores
\* higher, and the allowed equity candidate 'A' is returned
C5_Witness ==
    /\ pc = "called" /\ Len(quotes) = 2
    /\ ~Allowed(quotes[1]) /\ Head(quotes[1].symbol) = "^"
    /\ Allowed(quotes[2]) /\ quotes[2].quoteType # Upper(quotes[2].quoteType)
    /\ Points(quotes[1]) > Points(quotes[2])
    /\ match = Returned(quotes[2])

(***************************************************************************)
(* Symbols.py: the run loop (lines 180-229)                                *)
(***************************************************************************)
MaxRows == 2       \* most rows in the uploaded sheet
MaxHits == 2       \* longest list a search returns in the run loop

\* safe_str(x): "" for a missing cell (read as the empty string), else str(x).strip()
safe_str(x) == Strip(x)

\* the confidence with the two tiers exchanged
confidence_swapped(qtype) ==
    IF Upper(qtype) = <<"E","Q","U","I","T","Y">> THEN 75 ELSE 85

\* line 223: the confidence tier, in hundredths
confidence(qtype) ==
    IF Upper(qtype) = <<"E","Q","U","I","T","Y">> THEN 85 ELSE 75

\* needs_fill_mask, as the positions of the rows iterated
needs_fill(rs, only_blank) ==
    SelectSeq([k \in 1..Len(rs) |-> k],
              LAMBDA k : ~only_blank \/ Strip(rs[k].symbol) = <<>>)

work == needs_fill(rows, only_fill_blank)

\* a tuple appended to `results`
ResultRow(idx, symbol, shortname, longname, exch_disp, qtype, conf) ==
    [idx |-> idx, symbol |-> symbol, shortname |-> shortname, longname |-> longname,
     exch_disp |-> exch_disp, qtype |-> qtype, conf |-> conf]

\* lines 215-225: the fields recorded for a match, or for none
MatchFields(idx, m) ==
    IF m.kind = "quote"
    THEN ResultRow(idx, m.q.symbol, m.q.shortname, m.q.longname,
                   IF m.q.exchDisp # <<>> THEN m.q.exchDisp ELSE m.q.exchange,
                   m.q.quoteType, confidence(m.q.quoteType))
    ELSE ResultRow(idx, <<>>, <<>>, <<>>, <<>>, <<>>, 0)

NameCells == {<<>>, <<" ">>, <<" ","A","c","m","e">>}
SymbolCells == {<<>>, <<"O","L","D">>}
SheetRows == {[name |-> n, symbol |-> sy] : n \in NameCells, sy \in SymbolCells}

\* the quotes a response of the search endpoint may carry
SearchUniverse ==
    {[symbol |-> <<"A">>, shortname |-> <<"N">>, longname |-> <<>>,
      exchDisp |-> <<"L","S","E">>, exchange |-> <<>>,
      quoteType |-> <<"e","q","u","i","t","y">>],
     [symbol |-> <<"^","A">>, shortname |-> <<>>, longname |-> <<"L">>,
      exchDisp |-> <<>>, exchange |-> <<"L","S","E">>,
      quoteType |-> <<"I","N","D","E","X">>]}
SearchResults == UNION {[1..n -> SearchUniverse] : n \in 0..MaxHits}

\* what the search endpoint may answer to a request of the run loop
SearchAnswers ==
    {[kind |-> k, quotes |-> <<>>] :
        k \in {"network_error", "http_error", "not_json", "not_object",
               "no_quotes", "null_quotes"}}
    \cup {[kind |-> "quotes", quotes |-> l] : l \in SearchResults}

RunInit ==
    /\ prefer_exchanges \in ExchangeSelections
    /\ prefer_regions \in RegionSelections
    /\ allow_types \in TypeSelections
    /\ quotes = <<>>
    /\ match = NotCalled
    /\ rows \in UNION {[1..n -> SheetRows] : n \in 1..MaxRows}
    /\ only_fill_blank \in BOOLEAN
    /\ out_symbols = [k \in 1..Len(rows) |-> rows[k].symbol]
    /\ iter = 1
    /\ results = <<>>
    /\ CleanIdle /\ FillIdle /\ LookupIdle /\ PageIdle /\ AutoIdle
    /\ pc = "loop"

\* lines 205-207: the name is empty, an empty result is recorded, `continue`
EmptyName ==
    /\ pc = "loop" /\ iter <= Len(work)
    /\ safe_str(rows[work[iter]].name) = <<>>
    /\ results' = Append(results, ResultRow(work[iter], <<>>, <<>>, <<>>, <<>>, <<>>, 0))
    /\ iter' = iter + 1
    /\ UNCHANGED <<fillVars, lookupVars, pageVars, autoVars, pickVars, rows, only_fill_blank, out_symbols, cleanVars, pc>>

\* lines 209-229: search, pick, record; an exception of pick_best_match is
\* caught nowhere and ends the script run
SearchAndPick ==
    /\ pc = "loop" /\ iter <= Len(work)
    /\ safe_str(rows[work[iter]].name) # <<>>
    /\ \E answer \in SearchAnswers : quotes' = yahoo_search(answer).v
    /\ match' = pick_best_match(quotes', UiArg(prefer_exchanges),
                                UiArg(prefer_regions), UiArg(allow_types))
    /\ IF match'.kind = "raised"
       THEN /\ pc' = "crashed"
            /\ UNCHANGED <<out_symbols, results, iter>>
       ELSE /\ results' = Append(results, MatchFields(work[iter], match'))
            /\ out_symbols' = [out_symbols EXCEPT ![work[iter]] = match'.q.symbol]
            /\ iter' = iter + 1
            /\ pc' = pc
    /\ UNCHANGED <<fillVars, lookupVars, pageVars, autoVars, prefer_exchanges, prefer_regions, allow_types, rows, only_fill_blank,
                   cleanVars>>

\* the loop is exhausted: the review table and the download are shown
Finish ==
    /\ pc = "loop" /\ iter > Len(work)
    /\ pc' = "done"
    /\ UNCHANGED <<fillVars, lookupVars, pageVars, autoVars, pickVars, runVars, cleanVars>>

RunNext == EmptyName \/ SearchAndPick \/ Finish

SpecRun == RunInit /\ [][RunNext]_vars

\* the record of the row handled last, and that row
LastResult == results[Len(results)]
LastRow == rows[LastResult.idx]

\* C6: the confidence recorded for a row is 0.85 if a candidate was selected
\* and its quoteType is EQUITY, 0.75 if one of another type was selected, and
\* 0.0 with an empty resolved symbol if the row's name was empty or the search
\* returned no candidate.
C6_ConfidenceTiers ==
    (pc \in {"loop", "done"} /\ results # <<>>) =>
        IF safe_str(LastRow.name) = <<>> \/ quotes = <<>>
        THEN LastResult.conf = 0 /\ LastResult.symbol = <<>>
        ELSE /\ match.kind = "quote" /\ InList(match.q, quotes)
             /\ LastResult.symbol = match.q.symbol
             /\ LastResult.conf = (IF Upper(match.q.quoteType) = EQUITY THEN 85 ELSE 75)

\* a finished run whose first row had a name but no candidate (0.0, no
\* symbol) and whose second row selected a candidate that is not an equity
C6_Witness ==
    /\ pc = "done" /\ Len(results) = 2
    /\ safe_str(rows[results[1].idx].name) # <<>>
    /\ results[1].conf = 0 /\ results[1].symbol = <<>>
    /\ results[2].conf = 75 /\ results[2].symbol # <<>>

(***************************************************************************)
(* Cleaning and mapping one ticker cell: the raw cell is drawn from a      *)
(* bounded set, the actions apply sanitize_symbol and map_to_yahoo_symbol  *)
(***************************************************************************)
MaxPrefix == 2     \* most characters drawn in front of the token
MaxFill == 6       \* most filler letters drawn inside the token

PrefixChars == {"$", " ", "!"}
Prefixes == UNION {[1..n -> PrefixChars] : n \in 0..MaxPrefix}
Heads == {<<>>, <<"X">>, <<"x">>, <<"A">>}
Fill(n) == [k \in 1..n |-> "B"]
Endings == KNOWN_EX_SUFFIXES
           \cup {<<>>, <<".","t","o">>, <<".","B">>, <<".","B","C","D","E">>, <<"-","B">>,
                 <<"F","U","T">>, <<":","U","S">>, <<"/","B">>, <<"!">>, <<" ">>,
                 <<".","B",".","C">>, <<"1",".","B">>}

RawSymbols ==
    {PyNone} \cup {Str(p \o h \o Fill(n) \o e) :
                      p \in Prefixes, h \in Heads, n \in 0..MaxFill, e \in Endings}

ExchangeHints ==
    {PyNone, Str(<<>>), Str(<<"n","a","n">>), Str(<<"N","Y","S","E">>),
     Str(<<"n","m","s">>), Str(<<"L","S","E">>)}

CleanInit ==
    /\ PickIdle /\ RunIdle /\ FillIdle /\ LookupIdle /\ PageIdle /\ AutoIdle
    /\ raw_sym \in RawSymbols
    /\ sym = <<>>
    /\ resanitized = <<>>
    /\ exch_in = PyNone
    /\ yf_sym = <<>>
    /\ pc = "raw"

\* sym = sanitize_symbol(raw_sym)
Sanitize ==
    /\ pc = "raw"
    /\ sym' = sanitize_symbol(raw_sym)
    /\ pc' = "clean"
    /\ UNCHANGED <<fillVars, lookupVars, pageVars, autoVars, pickVars, runVars, raw_sym, resanitized, exch_in, yf_sym>>

\* the sanitizer applied to its own result
SanitizeAgain ==
    /\ pc = "clean"
    /\ resanitized' = sanitize_symbol(Str(sym))
    /\ pc' = "again"
    /\ UNCHANGED <<fillVars, lookupVars, pageVars, autoVars, pickVars, runVars, raw_sym, sym, exch_in, yf_sym>>

\* yf_sym = map_to_yahoo_symbol(sym, exch_in), for any exchange hint
Map ==
    /\ pc = "clean"
    /\ \E hint \in ExchangeHints :
          /\ exch_in' = hint
          /\ yf_sym' = map_to_yahoo_symbol(sym, hint)
    /\ pc' = "mapped"
    /\ UNCHANGED <<fillVars, lookupVars, pageVars, autoVars, pickVars, runVars, raw_sym, sym, resanitized>>

CleanNext == Sanitize \/ SanitizeAgain \/ Map

SpecClean == CleanInit /\ [][CleanNext]_vars

TickerAlphabet ==
    {"A","B","C","D","E","F","G","H","I","J","K","L","M","N","O","P","Q","R","S",
     "T","U","V","W","X","Y","Z","0","1","2","3","4","5","6","7","8","9",".","_","-"}

\* C8: sanitizing a sanitized symbol changes nothing.
C8_SanitizerIdempotent ==
    pc = "again" => resanitized = sym

\* C9: for every input, None and empty text included, the sanitizer returns a
\* string of characters of [A-Z0-9._-] only, and the empty string when the
\* input is None, empty or blank.
C9_SanitizedAlphabet ==
    pc \in {"clean", "again", "mapped"} =>
        /\ \A k \in 1..Len(sym) : sym[k] \in TickerAlphabet
        /\ (raw_sym.isnone \/ Strip(raw_sym.s) = <<>>) => sym = <<>>

\* a raw symbol with characters outside the alphabet, sanitized to a
\* non-empty token
C9_Witness ==
    /\ pc = "clean" /\ sym # <<>> /\ ~raw_sym.isnone
    /\ \E k \in 1..Len(raw_sym.s) : raw_sym.s[k] \notin TickerAlphabet
    /\ Len(sym) < Len(raw_sym.s)

\* C10: a sanitized symbol that ends with a known exchange suffix is mapped to
\* itself, whatever the exchange hint.
C10_SuffixPreserved ==
    (pc = "mapped" /\ \E suf \in KNOWN_EX_SUFFIXES : EndsWith(sym, suf)) =>
        yf_sym = sym

\* a symbol with a known suffix and a short tail, mapped under a US hint
C10_Witness ==
    /\ pc = "mapped" /\ yf_sym = sym
    /\ EndsWith(sym, <<".","T","O">>) /\ Len(sym) > 3
    /\ exch_in = Str(<<"N","Y","S","E">>)

\* the part of a symbol before its first dot and the part after it
BaseOf(s) == SubSeq(s, 1, FirstDot(s, 1) - 1)
TailOf(s) == SubSeq(s, FirstDot(s, 1) + 1, Len(s))

\* BASE.TAIL with a tail of one to three characters of [A-Z0-9]
HasShortTail(s) ==
    /\ FirstDot(s, 1) > 0
    /\ Len(TailOf(s)) \in 1..3
    /\ \A k \in 1..Len(TailOf(s)) : IsAlnum(TailOf(s)[k])

\* the class-share shape: letters, one dot, a short tail
ClassShareShape(s) ==
    /\ HasShortTail(s)
    /\ BaseOf(s) # <<>>
    /\ \A k \in 1..Len(BaseOf(s)) : IsUpperLetter(BaseOf(s)[k])

DomesticHint(h) == ~h.isnone /\ \E k \in US_KEYWORDS : Contains(Upper(h.s), k)
NoHint(h) == h.isnone \/ h.s = <<>> \/ h.s = <<"n","a","n">>

\* C11: a sanitized symbol without a known exchange suffix is mapped to
\* BASE-TAIL when it has the shape BASE.TAIL with a tail of 1-3 alphanumerics
\* and either the hint names a domestic venue or no hint is supplied and the
\* symbol has the class-share shape; in every other case it is mapped to
\* itself.
C11_ClassShareRewrite ==
    (pc = "mapped" /\ ~(\E suf \in KNOWN_EX_SUFFIXES : EndsWith(sym, suf))) =>
        yf_sym = (IF HasShortTail(sym)
                     /\ (DomesticHint(exch_in) \/ (NoHint(exch_in) /\ ClassShareShape(sym)))
                  THEN BaseOf(sym) \o <<"-">> \o TailOf(sym)
                  ELSE sym)

LookupInit ==
    /\ PickIdle /\ RunIdle /\ CleanIdle /\ FillIdle /\ PageIdle /\ AutoIdle
    /\ \/ net \in Worlds /\ response = NoResponse
       \/ net \in {DeadWorld, LiveWorld} /\ response \in Responses
    /\ called = "nothing"
    /\ args = NoArgs
    /\ ret_exists = ReturnBool(FALSE)
    /\ ret_info = ReturnRecord(EmptyRecord)
    /\ ret_quotes = ReturnList(<<>>)
    /\ ret_symbol = ReturnSymbol(PyNone)
    /\ probes = <<>>
    /\ pc = "lookup"

\* strict_exists(yf_symbol) of fill_yf_sector.py
CallStrictExists ==
    /\ pc = "lookup"
    /\ called' = "strict_exists"
    /\ ret_exists' = strict_exists(net)
    /\ probes' = strict_exists_probes(net)
    /\ pc' = "returned"
    /\ UNCHANGED <<pickVars, runVars, cleanVars, fillVars, pageVars, autoVars, net, response, args,
                   ret_info, ret_quotes, ret_symbol>>

\* strict_exists(symbol) of fill_yf_sector_4000.py
CallStrictExists4000 ==
    /\ pc = "lookup"
    /\ \E s \in {PyNone, Str(<<" ">>), Str(<<"A","B">>)} :
          /\ args' = [args EXCEPT !.symbol = s]
          /\ ret_exists' = strict_exists_4000(s, net)
    /\ called' = "strict_exists_4000"
    /\ probes' = strict_exists_4000_probes(args'.symbol, net)
    /\ pc' = "returned"
    /\ UNCHANGED <<pickVars, runVars, cleanVars, fillVars, pageVars, autoVars, net, response,
                   ret_info, ret_quotes, ret_symbol>>

\* cached_exists(yf_symbol)
CallCachedExists ==
    /\ pc = "lookup"
    /\ called' = "cached_exists"
    /\ ret_exists' = cached_exists(net)
    /\ probes' = cached_exists_probes(net)
    /\ pc' = "returned"
    /\ UNCHANGED <<pickVars, runVars, cleanVars, fillVars, pageVars, autoVars, net, response, args,
                   ret_info, ret_quotes, ret_symbol>>

\* cached_get_info(yf_symbol)
CallCachedGetInfo ==
    /\ pc = "lookup"
    /\ called' = "cached_get_info"
    /\ ret_info' = cached_get_info(net)
    /\ pc' = "returned"
    /\ UNCHANGED <<pickVars, runVars, cleanVars, fillVars, pageVars, autoVars, net, response, probes, args,
                   ret_exists, ret_quotes, ret_symbol>>

\* yahoo_search(query)
CallYahooSearch ==
    /\ pc = "lookup"
    /\ called' = "yahoo_search"
    /\ ret_quotes' = yahoo_search(response)
    /\ pc' = "returned"
    /\ UNCHANGED <<pickVars, runVars, cleanVars, fillVars, pageVars, autoVars, net, response, probes, args,
                   ret_exists, ret_info, ret_symbol>>

\* resolve_symbol_from_name(name, country_hint, exchange_hint)
CallResolveSymbol ==
    /\ pc = "lookup"
    /\ \E yq \in BOOLEAN, nm \in {Str(<<>>), Str(TEXT)},
          eh \in {PyNone, Str(<<"n","y","s","e">>)} :
          /\ args' = [args EXCEPT !.has_yq = yq, !.name = nm, !.exchange_hint = eh]
          /\ ret_symbol' = resolve_symbol_from_name(yq, nm, PyNone, eh, response, net)
    /\ called' = "resolve_symbol_from_name"
    /\ pc' = "returned"
    /\ UNCHANGED <<pickVars, runVars, cleanVars, fillVars, pageVars, autoVars, net, response, probes,
                   ret_exists, ret_info, ret_quotes>>

LookupNext ==
    \/ CallStrictExists \/ CallStrictExists4000 \/ CallCachedExists
    \/ CallCachedGetInfo \/ CallYahooSearch \/ CallResolveSymbol

SpecLookup == LookupInit /\ [][LookupNext]_vars

\* what each probe of strict_exists says about the symbol
MetadataConfirms ==
    /\ net.get_info.kind = "dict"
    /\ \E f \in {"quoteType", "shortName", "longName", "sector"} :
          ~net.get_info.d[f].isnone /\ net.get_info.d[f].s # <<>>
HistoryConfirms == net.hist = "rows"
SummaryConfirms ==
    /\ net.fast_info.kind = "obj"
    /\ \/ net.fast_info.last_price = "value"
       \/ /\ net.fast_info.last_price = "none"
          /\ ~net.fast_info.market_raises /\ ~net.fast_info.market.isnone
SummaryConfirms4000 ==
    net.fast_info.kind = "obj" /\ net.fast_info.isdict /\ net.fast_info.keyed

\* C13: strict_exists returns true exactly when one of its probes confirms
\* the symbol (yf.Ticker was built and the metadata, the price history or
\* the summary object confirms), false when every probe fails, raises or
\* returns nothing, and it never raises; in both scripts.
C13_StrictExistsIffConfirmed ==
    /\ (pc = "returned" /\ called = "strict_exists") =>
          /\ ~ret_exists.raised
          /\ ret_exists.v <=> (net.ticker = "ok" /\ (MetadataConfirms \/ HistoryConfirms
                                                      \/ SummaryConfirms))
    /\ (pc = "returned" /\ called = "strict_exists_4000") =>
          /\ ~ret_exists.raised
          /\ ret_exists.v <=> (/\ ~args.symbol.isnone /\ Strip(args.symbol.s) # <<>>
                               /\ net.ticker = "ok"
                               /\ (SummaryConfirms4000 \/ HistoryConfirms))

\* strict_exists answered False although reading fast_info raised, after the
\* metadata request failed and the history was empty
C13_Witness ==
    /\ pc = "returned" /\ called = "strict_exists"
    /\ net.ticker = "ok" /\ net.get_info.kind = "raise" /\ net.hist = "empty"
    /\ net.fast_info.kind = "raise"
    /\ ret_exists = ReturnBool(FALSE)

\* C14: cached_exists returns true whenever no probe confirms the symbol
\* (every probe raises or returns nothing), and it never raises.
C14_FailOpen ==
    (pc = "returned" /\ called = "cached_exists") =>
        /\ ~ret_exists.raised
        /\ ~(MetadataConfirms \/ HistoryConfirms \/ SummaryConfirms) => ret_exists.v

\* cached_exists answered True for a symbol that no probe confirms
C14_Witness ==
    /\ pc = "returned" /\ called = "cached_exists"
    /\ net.get_info.kind = "http404" /\ net.hist = "none" /\ net.fast_info.kind = "none"
    /\ ret_exists = ReturnBool(TRUE)

FillInit ==
    /\ PickIdle /\ RunIdle /\ CleanIdle /\ LookupIdle /\ PageIdle /\ AutoIdle
    /\ skip_non_yf \in BOOLEAN
    /\ strict_precheck \in BOOLEAN
    /\ do_exists_check \in BOOLEAN
    /\ max_retries \in 0..MaxRetries
    /\ checkpoint_every = MIN_CHECKPOINT_EVERY
    /\ skip_filled \in BOOLEAN
    /\ df \in Sheets
    /\ work_indices = WorkIndices(df, skip_filled, 1)
    /\ work_indices # <<>>
    /\ row_k = 0
    /\ processed = 0
    /\ failures = 0
    /\ err_rows = <<>>
    /\ strict_memo = {}
    /\ exists_memo = {}
    /\ info_memo = {}
    /\ row_events = <<>>
    /\ partial_bytes = NoSnapshot
    /\ logs = <<>>
    /\ pc = "fill"

\* `if k % int(checkpoint_every) == 0: save_checkpoint(df)`
CheckpointEvents(k) ==
    IF k % checkpoint_every = 0 THEN <<Event("save_checkpoint", k)>> ELSE <<>>

\* GiveUp without the count of the row
GiveUp_uncounted(status, error, mapped, events, checkpoint) ==
    /\ failures' = failures + 1
    /\ err_rows' = Append(err_rows, GivenUp(raw_sym', mapped, status,
                                            [isnone |-> FALSE, msg |-> error]))
    /\ processed' = processed
    /\ row_events' = events \o (IF checkpoint THEN CheckpointEvents(row_k') ELSE <<>>)
                     \o <<Event("sleep_with_jitter", 0)>>
    /\ partial_bytes' = IF checkpoint /\ row_k' % checkpoint_every = 0
                        THEN Snapshot(df) ELSE partial_bytes
    /\ df' = df

\* GiveUp after a call of cached_get_info
GiveUp_after_fetch(status, error, mapped, events, checkpoint) ==
    /\ failures' = failures + 1
    /\ err_rows' = Append(err_rows, GivenUp(raw_sym', mapped, status,
                                            [isnone |-> FALSE, msg |-> error]))
    /\ processed' = processed + 1
    /\ row_events' = events \o <<Event("cached_get_info", 1)>>
                     \o <<Event("sleep_with_jitter", 0)>>
    /\ partial_bytes' = partial_bytes
    /\ df' = df

\* a row given up before the fetch: failures, err_rows, processed, the sleep
GiveUp(status, error, mapped, events, checkpoint) ==
    /\ failures' = failures + 1
    /\ err_rows' = Append(err_rows, GivenUp(raw_sym', mapped, status,
                                            [isnone |-> FALSE, msg |-> error]))
    /\ processed' = processed + 1
    /\ row_events' = events \o (IF checkpoint THEN CheckpointEvents(row_k') ELSE <<>>)
                     \o <<Event("sleep_with_jitter", 0)>>
    /\ partial_bytes' = IF checkpoint /\ row_k' % checkpoint_every = 0
                        THEN Snapshot(df) ELSE partial_bytes
    /\ df' = df

\* Fetch that assigns every field of the result, None included
Fetch_assign_all(r, events) ==
    LET miss == ~Cached(info_memo, yf_sym')
        result == IF r.raised THEN EmptyRecord ELSE r.v
        ok == \E f \in OutFields : IsText(result[f])
    IN  /\ info_memo' = IF r.raised THEN info_memo
                        ELSE info_memo \cup {<<yf_sym', r.v>>}
        /\ df' = [df EXCEPT ![work_indices[row_k']].out =
                     [f \in OutFields |-> result[f]]]
        /\ failures' = IF ok THEN failures ELSE failures + 1
        /\ err_rows' =
              IF ok THEN err_rows
              ELSE Append(err_rows,
                          [Symbol |-> raw_sym', Mapped |-> Str(yf_sym'), Status |-> "empty",
                           Sector |-> result.sector, Industry |-> result.industry,
                           Name |-> result.name, Country |-> result.country,
                           Asset_Type |-> result.asset_type, Exchange |-> result.exchange,
                           Error |-> [isnone |-> TRUE, msg |-> ""]])
        /\ processed' = processed + 1
        /\ row_events' = events \o fetch_loop(0, max_retries, r, miss)
                         \o <<Event("sleep_with_jitter", 0)>> \o CheckpointEvents(row_k')
        /\ partial_bytes' = IF row_k' % checkpoint_every = 0
                            THEN Snapshot(df') ELSE partial_bytes

\* the rest of the loop body once the row passed the pre-checks: the fetch
\* with retries, the write-back, the "empty" entry, the sleep, the checkpoint
Fetch(r, events) ==
    LET miss == ~Cached(info_memo, yf_sym')
        result == IF r.raised THEN EmptyRecord ELSE r.v
        ok == \E f \in OutFields : IsText(result[f])
    IN  /\ info_memo' = IF r.raised THEN info_memo
                        ELSE info_memo \cup {<<yf_sym', r.v>>}
        /\ df' = [df EXCEPT ![work_indices[row_k']].out =
                     [f \in OutFields |->
                         IF IsText(result[f]) THEN Str(Strip(result[f].s))
                         ELSE df[work_indices[row_k']].out[f]]]
        /\ failures' = IF ok THEN failures ELSE failures + 1
        /\ err_rows' =
              IF ok THEN err_rows
              ELSE Append(err_rows,
                          [Symbol |-> raw_sym', Mapped |-> Str(yf_sym'), Status |-> "empty",
                           Sector |-> result.sector, Industry |-> result.industry,
                           Name |-> result.name, Country |-> result.country,
                           Asset_Type |-> result.asset_type, Exchange |-> result.exchange,
                           Error |-> IF r.raised THEN [isnone |-> FALSE, msg |-> "exception"]
                                     ELSE [isnone |-> TRUE, msg |-> ""]])
        /\ processed' = processed + 1
        /\ row_events' = events \o fetch_loop(0, max_retries, r, miss)
                         \o <<Event("sleep_with_jitter", 0)>> \o CheckpointEvents(row_k')
        /\ partial_bytes' = IF row_k' % checkpoint_every = 0
                            THEN Snapshot(df') ELSE partial_bytes

\* one pass of `for k, idx in enumerate(work_indices, start=1)`
ProcessRow ==
    /\ pc = "fill" /\ row_k < Len(work_indices)
    /\ row_k' = row_k + 1
    /\ raw_sym' = df[work_indices[row_k']].symbol
    /\ IF skip_non_yf /\ looks_non_yf(raw_sym')
       THEN /\ GiveUp("skipped_non_yahoo_format", "non_yahoo_format", PyNone, <<>>, FALSE)
            /\ UNCHANGED <<sym, exch_in, yf_sym, strict_memo, exists_memo, info_memo>>
       ELSE
       /\ sym' = sanitize_symbol(raw_sym')
       /\ IF sym' = <<>>
          THEN /\ GiveUp("empty_after_sanitize", "empty_after_sanitize", PyNone, <<>>, FALSE)
               /\ UNCHANGED <<exch_in, yf_sym, strict_memo, exists_memo, info_memo>>
          ELSE
          /\ exch_in' = Str(Strip(df[work_indices[row_k']].exchange.s))
          /\ yf_sym' = map_to_yahoo_symbol(sym', exch_in')
          /\ \E found \in (IF strict_precheck THEN StrictAnswers(strict_memo, yf_sym')
                           ELSE {TRUE}) :
               LET strict_events ==
                       IF ~strict_precheck THEN <<>>
                       ELSE <<Event("strict_exists", 0)>>
                            \o (IF Cached(strict_memo, yf_sym') THEN <<>>
                                ELSE <<Event("yfinance", 0)>>)
               IN
               /\ strict_memo' = IF strict_precheck
                                 THEN strict_memo \cup {<<yf_sym', found>>}
                                 ELSE strict_memo
               /\ IF strict_precheck /\ ~found
                  THEN /\ GiveUp("strict_not_found", "strict_precheck_failed",
                                 Str(yf_sym'), strict_events, TRUE)
                       /\ UNCHANGED <<exists_memo, info_memo>>
                  ELSE
                  \E open \in (IF do_exists_check THEN ExistsAnswers(exists_memo, yf_sym')
                               ELSE {TRUE}) :
                     LET exists_events ==
                             IF ~do_exists_check THEN <<>>
                             ELSE <<Event("cached_exists", 0)>>
                                  \o (IF Cached(exists_memo, yf_sym') THEN <<>>
                                      ELSE <<Event("yfinance", 0)>>)
                     IN
                     /\ exists_memo' = IF do_exists_check
                                       THEN exists_memo \cup {<<yf_sym', open>>}
                                       ELSE exists_memo
                     /\ IF do_exists_check /\ ~open
                        THEN /\ GiveUp("not_found", "existence_check_failed",
                                       Str(yf_sym'), strict_events \o exists_events, TRUE)
                             /\ UNCHANGED info_memo
                        ELSE \E r \in InfoAnswers(info_memo, yf_sym') :
                                Fetch(r, strict_events \o exists_events)
    /\ UNCHANGED <<pickVars, runVars, lookupVars, pageVars, autoVars, resanitized, skip_non_yf, strict_precheck,
                   do_exists_check, max_retries, checkpoint_every, skip_filled,
                   work_indices, logs, pc>>

\* after the loop: the final checkpoint, and the error log kept for export
FinishFill ==
    /\ pc = "fill" /\ row_k = Len(work_indices)
    /\ partial_bytes' = Snapshot(df)
    /\ row_events' = <<Event("save_checkpoint", 0)>>
    /\ logs' = IF err_rows # <<>> THEN err_rows ELSE logs
    /\ pc' = "filled"
    /\ UNCHANGED <<pickVars, runVars, lookupVars, pageVars, autoVars, cleanVars, skip_non_yf, strict_precheck,
                   do_exists_check, max_retries, checkpoint_every, skip_filled, df,
                   work_indices, row_k, processed,
                   failures, err_rows, strict_memo, exists_memo, info_memo>>

FillNext == ProcessRow \/ FinishFill

SpecFill == FillInit /\ [][FillNext]_vars

\* the entry of err_rows that the step appended, if it appended one
Appended(status) ==
    /\ Len(err_rows') = Len(err_rows) + 1
    /\ err_rows'[Len(err_rows')].Symbol = raw_sym'
    /\ err_rows'[Len(err_rows')].Status = status

\* a step that handles the next row of the worklist
RowStep == pc = "fill" /\ row_k' = row_k + 1

IsLookup(e) == e.op \in {"strict_exists", "cached_exists", "cached_get_info", "yfinance"}
NoLookups(events) == \A n \in 1..Len(events) : ~IsLookup(events[n])

\* a raw symbol with ':', '/' or a space, or that ends in FUT, or that
\* sanitizes to empty
LooksSynthetic(raw) ==
    \/ \E x \in {<<":">>, <<"/">>, <<" ">>} : Contains(raw.s, x)
    \/ EndsWith(raw.s, <<"F","U","T">>)
    \/ sanitize_symbol(raw) = <<>>
FlaggedRow(n) ==
    \/ looks_non_yf(df[work_indices[n]].symbol)
    \/ LooksSynthetic(df[work_indices[n]].symbol)

\* C12 as written: every row that looks_non_yf flags ends with the status
\* skipped_non_yahoo_format, and no existence probe and no metadata fetch
\* is issued for it.
C12_FlaggedRowsSkipped ==
    [][(RowStep /\ FlaggedRow(row_k + 1)) =>
          (Appended("skipped_non_yahoo_format") /\ NoLookups(row_events'))]_vars

\* C12: while "Skip non-Yahoo style symbols" is ticked, every row that
\* looks_non_yf flags ends with the status skipped_non_yahoo_format, and no
\* existence probe and no metadata fetch is issued for it.
C12_FlaggedRowsSkippedWhenEnabled ==
    [][(RowStep /\ skip_non_yf /\ FlaggedRow(row_k + 1)) =>
          (Appended("skipped_non_yahoo_format") /\ NoLookups(row_events'))]_vars

\* a flagged row was skipped after a row that was looked up
C12_Witness ==
    /\ pc = "fill" /\ row_k > 1 /\ skip_non_yf
    /\ looks_non_yf(raw_sym) /\ raw_sym = df[work_indices[row_k]].symbol
    /\ Contains(raw_sym.s, <<":">>)
    /\ err_rows # <<>>
    /\ err_rows[Len(err_rows)].Symbol = raw_sym
    /\ err_rows[Len(err_rows)].Status = "skipped_non_yahoo_format"
    /\ row_events = <<Event("sleep_with_jitter", 0)>>
    /\ info_memo # {}

\* the positions of the events of one kind
Positions(events, op) == {n \in 1..Len(events) : events[n].op = op}

\* the row reached strict_exists and it answered False
StrictDenied ==
    /\ strict_precheck
    /\ Positions(row_events', "strict_exists") # {}
    /\ <<yf_sym', FALSE>> \in strict_memo'

\* C15: when the strict pre-check is enabled and strict_exists returns false
\* for the mapped symbol of a row, the row ends with the status
\* strict_not_found, cached_get_info is not invoked for it and none of its
\* output cells is written.
C15_PrecheckShortCircuit ==
    [][(RowStep /\ StrictDenied) =>
          /\ Appended("strict_not_found")
          /\ err_rows'[Len(err_rows')].Mapped = Str(yf_sym')
          /\ Positions(row_events', "cached_get_info") = {}
          /\ df' = df /\ info_memo' = info_memo]_vars

\* a row given up by the pre-check after a row that was filled
C15_Witness ==
    /\ pc = "fill" /\ row_k > 1 /\ strict_precheck
    /\ <<yf_sym, FALSE>> \in strict_memo
    /\ err_rows # <<>>
    /\ err_rows[Len(err_rows)].Status = "strict_not_found"
    /\ err_rows[Len(err_rows)].Symbol = df[work_indices[row_k]].symbol
    /\ row_events[1].op = "strict_exists"
    /\ df[work_indices[row_k]].out = NoCells
    /\ \E n \in 1..(row_k - 1) : df[work_indices[n]].out # NoCells

\* the row reached the fetch, and what every attempt of it returned
Fetched == Positions(row_events', "cached_get_info") # {}
Populated == AnyField(CachedValue(info_memo', yf_sym'))
Attempts == Cardinality(Positions(row_events', "cached_get_info"))

\* C16: for a row that reaches the fetch the lookup is invoked at most
\* max_retries + 1 times, no attempt follows one that yields a populated
\* field, and a wait of 0.4 s x attempt number is taken between consecutive
\* attempts and only there: every wait is followed by another attempt.
C16_LinearBackoff ==
    [][(RowStep /\ Fetched) =>
          LET ev == row_events'
              calls == Positions(ev, "cached_get_info")
              waits == Positions(ev, "sleep")
          IN  /\ Attempts <= max_retries + 1
              /\ Populated => Attempts = 1
              /\ \A p \in calls, q \in calls :
                    (ev[q].n = ev[p].n + 1) =>
                        \E w \in waits : /\ p < w /\ w < q
                                         /\ ev[w].n = BACKOFF_TENTHS * ev[p].n
              /\ \A w \in waits : \E q \in calls : q > w]_vars

\* C17 as written: an attempt that returns empty data and no exception ends
\* the row with the status empty and no further attempt is made.
C17_EmptyNotRetried ==
    [][(RowStep /\ Fetched /\ ~Populated) =>
          (Appended("empty") /\ Attempts = 1)]_vars

\* C17: when the attempts of a row return empty data and no exception, the
\* row ends with the status empty after max_retries + 1 attempts, each
\* failed attempt being followed by its wait.
C17_EmptyAfterAllAttempts ==
    [][(RowStep /\ Fetched /\ ~Populated) =>
          /\ Appended("empty")
          /\ Attempts = max_retries + 1
          /\ Cardinality(Positions(row_events', "sleep")) = max_retries + 1]_vars

\* a row that ended empty after two attempts
C17_Witness ==
    /\ pc = "fill" /\ row_k >= 1 /\ max_retries = 1
    /\ err_rows # <<>>
    /\ err_rows[Len(err_rows)].Status = "empty"
    /\ err_rows[Len(err_rows)].Symbol = df[work_indices[row_k]].symbol
    /\ Cardinality(Positions(row_events, "cached_get_info")) = 2
    /\ ~AnyField(CachedValue(info_memo, yf_sym))

\* C18: when the row at a position that is a multiple of checkpoint_every
\* finishes, save_checkpoint is requested whatever the outcome of the row,
\* and a final snapshot of the table is written after the last row.
C18_CheckpointEveryInterval ==
    [][/\ (RowStep /\ row_k' % checkpoint_every = 0) =>
             /\ Positions(row_events', "save_checkpoint") # {}
             /\ partial_bytes' = Snapshot(df')
       /\ (pc = "fill" /\ pc' = "filled") => partial_bytes' = Snapshot(df')]_vars

\* C19: no outcome of a single row aborts a run.
C19_NoRowAbortsRun == pc # "crashed"

\* every lookup that cached_get_info makes for the symbol failed
MetadataLookupFailed ==
    \/ net.ticker = "raise"
    \/ net.get_info.kind = "httperr"
    \/ /\ net.get_info.kind # "dict" /\ net.info.kind # "dict"
       /\ \/ net.fast_info.kind # "obj"
          \/ net.fast_info.market_raises
          \/ net.fast_info.market.isnone
SearchFailed ==
    response.kind \in {"network_error", "http_error", "not_json", "not_object"}

RowMatched ==
    /\ Fetched
    /\ \E f \in OutFields : IsText(CachedValue(info_memo', yf_sym')[f])

StatusCodes ==
    {"skipped_non_yahoo_format", "empty_after_sanitize", "strict_not_found",
     "not_found", "empty"}
MappingReached(status) == status \in {"strict_not_found", "not_found", "empty"}

\* C21: the error log gets exactly one record for each worklist row that
\* did not reach the matched state and none for a matched row; the record
\* carries the raw symbol, the mapped symbol when mapping was reached, a
\* status code and an error detail; at run end the log kept for export is
\* that list of records.
C21_ErrorLogComplete ==
    [][/\ RowStep =>
             IF RowMatched THEN err_rows' = err_rows
             ELSE LET rec == err_rows'[Len(err_rows')]
                  IN  /\ Len(err_rows') = Len(err_rows) + 1
                      /\ SubSeq(err_rows', 1, Len(err_rows)) = err_rows
                      /\ rec.Symbol = df[work_indices[row_k']].symbol
                      /\ rec.Status \in StatusCodes
                      /\ MappingReached(rec.Status) => rec.Mapped = Str(yf_sym')
                      /\ ~rec.Error.isnone
       /\ (pc = "fill" /\ pc' = "filled") =>
             /\ err_rows' = err_rows
             /\ logs' = err_rows]_vars

(***************************************************************************)
(* One export of a table of up to MaxPageRows rows                         *)
(***************************************************************************)
PageInit ==
    /\ PickIdle /\ RunIdle /\ CleanIdle /\ FillIdle /\ LookupIdle /\ AutoIdle
    /\ \E n \in 0..MaxPageRows : page_df = [k \in 1..n |-> k]
    /\ page_size \in PageSizes
    /\ writer = <<>>
    /\ pc = "export"

\* save_checkpoint: write_df_paged(_df, writer, page_size=max_rows_per_sheet)
\* with max_rows_per_sheet = min(int(user_sheet_rows), MAX_SHEET_ROWS_HARD_CAP)
CallWriteDfPaged ==
    /\ pc = "export"
    /\ page_size \in MIN_SHEET_ROWS..MAX_SHEET_ROWS_HARD_CAP
    /\ writer' = write_df_paged(page_df, IF page_size <= MAX_SHEET_ROWS_HARD_CAP
                                          THEN page_size ELSE MAX_SHEET_ROWS_HARD_CAP)
    /\ pc' = "paged"
    /\ UNCHANGED <<pickVars, runVars, cleanVars, fillVars, lookupVars, autoVars, page_df,
                   page_size>>

\* out_bytes = to_excel_bytes_multi(df, sheet_base="Updated", max_rows_per_sheet=...)
CallToExcelBytesMulti ==
    /\ pc = "export"
    /\ page_size >= MIN_SHEET_ROWS_4000
    /\ writer' = to_excel_bytes_multi(page_df, page_size)
    /\ pc' = "multi"
    /\ UNCHANGED <<pickVars, runVars, cleanVars, fillVars, lookupVars, autoVars, page_df,
                   page_size>>

PageNext == CallWriteDfPaged \/ CallToExcelBytesMulti

SpecPage == PageInit /\ [][PageNext]_vars

Exported == pc \in {"paged", "multi"}

\* the rows of the sheets, taken in the order the sheets were written
RECURSIVE RowsInSheetOrder(_)
RowsInSheetOrder(sheets) ==
    IF sheets = <<>> THEN <<>>
    ELSE sheets[1].rows \o RowsInSheetOrder(Tail(sheets))

SheetOrder == \A p \in 1..(Len(writer) - 1) : writer[p].sheet < writer[p + 1].sheet

\* C22 as written: when the row count exceeds the page size the output is
\* split across several pages that all hold the same number of rows, the
\* pages in sheet order contain every row exactly once in the original
\* order, and no page exceeds the page size.
C22_EquallySizedPages ==
    (Exported /\ Len(page_df) > page_size) =>
        /\ Len(writer) > 1
        /\ \A p \in 1..Len(writer), q \in 1..Len(writer) :
              Len(writer[p].rows) = Len(writer[q].rows)
        /\ SheetOrder
        /\ RowsInSheetOrder(writer) = page_df
        /\ \A p \in 1..Len(writer) : Len(writer[p].rows) <= page_size

\* C22: when the row count exceeds the page size the output is split across
\* several pages that all hold page-size rows except the last, which holds
\* the remaining rows (at least one), the pages in sheet order contain
\* every row exactly once in the original order, and no page exceeds the
\* page size.
C22_FullPagesThenRemainder ==
    (Exported /\ Len(page_df) > page_size) =>
        /\ Len(writer) > 1
        /\ \A p \in 1..(Len(writer) - 1) : Len(writer[p].rows) = page_size
        /\ Len(writer[Len(writer)].rows) \in 1..page_size
        /\ SheetOrder
        /\ RowsInSheetOrder(writer) = page_df
        /\ \A p \in 1..Len(writer) : Len(writer[p].rows) <= page_size

\* a table of more than two pages whose last page is shorter than the others
C22_Witness ==
    /\ pc = "paged"
    /\ Len(page_df) > 2 * page_size
    /\ Len(writer) = 3
    /\ Len(writer[3].rows) < Len(writer[1].rows)
    /\ writer[2].rows[1] = page_size + 1

\* the position in the row's events of the first call of cached_get_info
FirstFetch == CHOOSE p \in Positions(row_events', "cached_get_info") : row_events'[p].n = 1

\* the service was asked right after the call at position p
AsksService(p) == p < Len(row_events') /\ row_events'[p + 1].op = "yfinance"

\* C23: the cache of cached_get_info is read-through - on a miss the service
\* is asked and the entry populated, on a hit the stored result is returned
\* and the service is not asked - and at every point of a run each stored
\* entry is the result of a successful lookup: a failed or empty lookup is
\* not what a later read of the symbol gets back.
C23_CacheHoldsSuccessfulLookups ==
    [][(RowStep /\ Fetched) =>
          /\ Cached(info_memo, yf_sym') =>
                /\ \A p \in Positions(row_events', "cached_get_info") : ~AsksService(p)
                /\ info_memo' = info_memo
          /\ ~Cached(info_memo, yf_sym') =>
                /\ AsksService(FirstFetch)
                /\ Cached(info_memo', yf_sym')
          /\ \A e \in info_memo' : AnyField(e[2])]_vars

\* what the probe says about the symbol, for the validator that was called
Confirms(probe) ==
    CASE probe = "get_info" -> MetadataConfirms
      [] probe = "history" -> HistoryConfirms
      [] probe = "fast_info" -> IF called = "strict_exists_4000" THEN SummaryConfirms4000
                                ELSE SummaryConfirms

ValidatorReturned ==
    pc = "returned" /\ called \in {"strict_exists", "cached_exists", "strict_exists_4000"}

IsPrefixOf(s, t) == Len(s) <= Len(t) /\ s = SubSeq(t, 1, Len(s))

NoProbeAfterConfirmation == \A k \in 1..(Len(probes) - 1) : ~Confirms(probes[k])

\* C24 as written: every existence validator probes in the order metadata
\* record, short price history, summary object, and stops at the first
\* confirming signal: a later probe is issued only if every earlier probe
\* failed to confirm, and no probe is issued after a confirmation.
C24_ProbeOrder ==
    ValidatorReturned =>
        /\ IsPrefixOf(probes, <<"get_info", "history", "fast_info">>)
        /\ NoProbeAfterConfirmation

\* C24: the existence validators of fill_yf_sector.py probe in the order
\* metadata record, short price history, summary object; the validator of
\* fill_yf_sector_4000.py probes the summary object and then the short price
\* history, and has no metadata probe; each stops at the first confirming
\* signal: a later probe is issued only if every earlier probe failed to
\* confirm, and no probe is issued after a confirmation.
C24_ProbeOrderPerScript ==
    ValidatorReturned =>
        /\ IsPrefixOf(probes, IF called = "strict_exists_4000"
                              THEN <<"fast_info", "history">>
                              ELSE <<"get_info", "history", "fast_info">>)
        /\ NoProbeAfterConfirmation

\* strict_exists of fill_yf_sector.py stopped at the price history, after a
\* metadata record that did not confirm
C24_Witness ==
    /\ pc = "returned" /\ called = "strict_exists"
    /\ ~MetadataConfirms /\ HistoryConfirms /\ SummaryConfirms
    /\ probes = <<"get_info", "history">>
    /\ ret_exists = ReturnBool(TRUE)

\* C25: the rows of the worklist are handled one at a time and in worklist
\* order; each reaches exactly one outcome - matched, or one error record
\* with a status code - and is counted as processed once; at every row
\* boundary processed is the number of rows handled and failures the number
\* of error records, and at run end processed is the worklist size.
C25_RowsAtomicInOrder ==
    [][/\ RowStep =>
             /\ raw_sym' = df[work_indices[row_k + 1]].symbol
             /\ processed' = processed + 1
             /\ \/ RowMatched /\ err_rows' = err_rows
                \/ /\ ~RowMatched
                   /\ Len(err_rows') = Len(err_rows) + 1
                   /\ SubSeq(err_rows', 1, Len(err_rows)) = err_rows
                   /\ err_rows'[Len(err_rows')].Status \in StatusCodes
             /\ processed' = row_k'
             /\ failures' = Len(err_rows')
       /\ (pc = "fill" /\ pc' = "filled") =>
             /\ processed = Len(work_indices)
             /\ processed' = processed /\ failures' = failures
             /\ err_rows' = err_rows]_vars

\* a run ended with some rows matched and some not
C25_Witness ==
    /\ pc = "filled"
    /\ processed = Len(work_indices) /\ processed > 2
    /\ failures = Len(err_rows)
    /\ failures > 0 /\ failures < processed

\* the row passed the pre-filter and the guard `if not sym`
PassedGuards ==
    /\ ~(skip_non_yf /\ looks_non_yf(raw_sym'))
    /\ sanitize_symbol(raw_sym') # <<>>

\* C26: every existence probe and every metadata fetch of the row processor
\* is issued with a non-empty mapped symbol: for every raw symbol that
\* passes the pre-filter and the guard on the sanitized symbol,
\* map_to_yahoo_symbol returns a non-empty string.
C26_LookupsHaveSymbol ==
    [][/\ (RowStep /\ PassedGuards) => yf_sym' # <<>>
       /\ (RowStep /\ ~NoLookups(row_events')) => yf_sym' # <<>>]_vars

\* the legacy pre-check was made for the row
LegacyChecked == Positions(row_events', "cached_exists") # {}

C28_FillFrame ==
    [][/\ RowStep =>
             /\ Len(df') = Len(df)
             /\ \A n \in 1..Len(df) :
                   /\ df'[n].symbol = df[n].symbol /\ df'[n].exchange = df[n].exchange
                   /\ \A f \in OutFields :
                         (df'[n].out[f] # df[n].out[f]) =>
                            /\ n = work_indices[row_k']
                            /\ InWorklist(df[n], skip_filled)
                            /\ Fetched
                            /\ LET v == CachedValue(info_memo', yf_sym')[f]
                               IN  /\ IsText(v)
                                   /\ df'[n].out[f] = Str(Strip(v.s))
                                   /\ df'[n].out[f].s # <<>>
       /\ (pc = "fill" /\ pc' = "filled") => df' = df]_vars

\* a filled row was left out of the worklist and kept its cells, and a row
\* of the worklist got the stripped name that the lookup returned
C28_Witness ==
    /\ pc = "fill" /\ skip_filled /\ row_k >= 1
    /\ work_indices[1] = 2
    /\ df[1] = FilledCell
    /\ df[work_indices[row_k]].out.name = Str(<<"I","n","c">>)
    /\ CachedValue(info_memo, yf_sym).name = Str(<<" ","I","n","c"," ">>)

(***************************************************************************)
(* fill_yf_sector_4000.py: the pass "Auto-fill Symbol from Name", with the *)
(* box ticked and yahooquery installed                                     *)
(***************************************************************************)
AutoInit ==
    /\ PickIdle /\ RunIdle /\ CleanIdle /\ FillIdle /\ LookupIdle /\ PageIdle
    /\ df4000 \in AutoSheets
    /\ \E fetch_only_filtered \in BOOLEAN :
          rows4000 = IF fetch_only_filtered THEN FilteredRows(df4000, 1)
                     ELSE [n \in 1..Len(df4000) |-> n]
    /\ idx_i = 0
    /\ filled = 0
    /\ unresolved = 0
    /\ skipped = 0
    /\ resolve_memo = {}
    /\ strict_memo4000 = {}
    /\ pc = "autofill"

\* one pass of `for idx_i, i in enumerate(rows, start=1)`
AutoFillRow ==
    /\ pc = "autofill" /\ idx_i < Len(rows4000)
    /\ idx_i' = idx_i + 1
    /\ LET i == rows4000[idx_i']
           sym_now == Strip(df4000[i].symbol)
           nm == Strip(df4000[i].name)
           exch_hint == df4000[i].exchange
           key == <<nm, exch_hint>>
       IN  IF sym_now # <<>> \/ nm = <<>>
           THEN /\ skipped' = skipped + 1
                /\ called' = "nothing"
                /\ UNCHANGED <<df4000, filled, unresolved, resolve_memo, strict_memo4000,
                               net, response, ret_symbol>>
           ELSE
           /\ skipped' = skipped
           /\ IF Cached(resolve_memo, key)
              THEN /\ called' = "cached"
                   /\ ret_symbol' = ReturnSymbol(CachedValue(resolve_memo, key))
                   /\ UNCHANGED <<resolve_memo, strict_memo4000, net, response>>
              ELSE \E answer \in AutoResponses, w \in {DeadWorld, LiveWorld} :
                      LET cand == IF answer.kind = "quotes"
                                  THEN _best_symbol_from_quotes(answer.quotes, PyNone, exch_hint)
                                  ELSE PyNone
                          found == strict_exists_4000(cand, w).v
                      IN  /\ (Truthy(cand) /\ Cached(strict_memo4000, cand)) =>
                                found = CachedValue(strict_memo4000, cand)
                          /\ called' = "resolve_symbol_from_name"
                          /\ response' = answer
                          /\ net' = w
                          /\ ret_symbol' = resolve_symbol_from_name(TRUE, Str(nm), PyNone,
                                                                    exch_hint, answer, w)
                          /\ strict_memo4000' = IF Truthy(cand)
                                                THEN strict_memo4000 \cup {<<cand, found>>}
                                                ELSE strict_memo4000
                          /\ resolve_memo' = resolve_memo \cup {<<key, ret_symbol'.v>>}
           /\ IF Truthy(ret_symbol'.v)
              THEN /\ df4000' = [df4000 EXCEPT ![i].symbol = ret_symbol'.v.s]
                   /\ filled' = filled + 1
                   /\ unresolved' = unresolved
              ELSE /\ unresolved' = unresolved + 1
                   /\ UNCHANGED <<df4000, filled>>
    /\ UNCHANGED <<pickVars, runVars, cleanVars, fillVars, pageVars, rows4000, args,
                   ret_exists, ret_info, ret_quotes, probes, pc>>

\* after the loop: the message with the three counters
AutoFinish ==
    /\ pc = "autofill" /\ idx_i = Len(rows4000)
    /\ pc' = "autofilled"
    /\ UNCHANGED <<pickVars, runVars, cleanVars, fillVars, lookupVars, pageVars, autoVars>>

AutoNext == AutoFillRow \/ AutoFinish

SpecAuto == AutoInit /\ [][AutoNext]_vars

AutoStep == pc = "autofill" /\ idx_i' = idx_i + 1

\* C29: the pass writes a symbol only into the row it handles, only if the
\* symbol of that row was blank and its name was not, and only a non-blank
\* value for which strict_exists returned true and which, when the search
\* was made for this row, is the candidate picked from its quotes; a row
\* with a symbol is never overwritten, names and hints are never written,
\* and filled + unresolved + skipped is the number of rows iterated.
C29_ValidatedAutoFill ==
    [][/\ AutoStep =>
             /\ Len(df4000') = Len(df4000)
             /\ \A n \in 1..Len(df4000) :
                   /\ df4000'[n].name = df4000[n].name
                   /\ df4000'[n].exchange = df4000[n].exchange
                   /\ (df4000'[n].symbol # df4000[n].symbol) =>
                         /\ n = rows4000[idx_i']
                         /\ Strip(df4000[n].symbol) = <<>>
                         /\ Strip(df4000[n].name) # <<>>
                         /\ Strip(df4000'[n].symbol) # <<>>
                         /\ <<Str(df4000'[n].symbol), TRUE>> \in strict_memo4000'
                         /\ called' = "resolve_symbol_from_name" =>
                               /\ response'.kind = "quotes"
                               /\ Str(df4000'[n].symbol) =
                                     _best_symbol_from_quotes(response'.quotes, PyNone,
                                                              df4000[n].exchange)
             /\ filled' + unresolved' + skipped' = idx_i'
       /\ (pc = "autofill" /\ pc' = "autofilled") =>
             /\ filled + unresolved + skipped = Len(rows4000)
             /\ UNCHANGED autoVars]_vars

\* a pass that filled one row with a validated candidate, left one
\* unresolved because strict_exists denied its candidate, and skipped a row
\* that had a symbol
C29_Witness ==
    /\ pc = "autofilled"
    /\ filled = 1 /\ unresolved = 1 /\ skipped = 1
    /\ \E n \in 1..Len(df4000) : df4000[n].symbol = <<"A","B">>
    /\ \E e \in strict_memo4000 : ~e[2]
    /\ \E n \in 1..Len(df4000) : df4000[n].symbol = <<"X","Y">>

\* the rows the run has handled so far, and those it recorded without a
\* candidate
Handled == {results[n].idx : n \in 1..Len(results)}
NoCandidate == {results[n].idx : n \in {m \in 1..Len(results) : results[m].symbol = <<>>}}

\* C30: in the run of Symbols.py, whatever "only fill blank" is set to and
\* whatever the search returns, a non-empty symbol of the sheet is never
\* replaced by the empty string: a row for which no candidate was selected
\* keeps the symbol it had, and the rows outside the needs-fill set, the
\* rows with an empty name and the rows not yet handled are unchanged.
C30_SymbolNeverBlanked ==
    \A k \in 1..Len(out_symbols) :
        /\ rows[k].symbol # <<>> => out_symbols[k] # <<>>
        /\ k \in NoCandidate => out_symbols[k] = rows[k].symbol
        /\ (k \notin Handled \/ safe_str(rows[k].name) = <<>>) =>
              out_symbols[k] = rows[k].symbol

====
